---- MODULE Spec2Model ----
(***************************************************************************)
(* RoboScript compiler front end and code generator.                       *)
(*                                                                         *)
(*   Parser            token-based recursive descent (src/src/main.cpp)    *)
(*   PeglibParser      line-based variant (src/unnamed/part_000) and       *)
(*                     PEG-grammar variant (src/src/peglib_parser.cpp)     *)
(*   ArduinoGenerator  AST walk that emits the sketch                      *)
(*                     (src/src/arduino_generator.cpp)                     *)
(*                                                                         *)
(* Strings are TLA+ strings; std::stoi and std::to_string are computed     *)
(* character by character.  The call stack of the recursive-descent parser *)
(* and of the generator's walk is an explicit stack: one action per        *)
(* statement rule, block header, block end and emitted step.               *)
(***************************************************************************)
EXTENDS Integers, Sequences, FiniteSets, TLC

VARIABLES
    tokens,             \* Parser::tokens
    pos,                \* Parser::pos
    stack,              \* open compound rules (parseIf/While/Repeat/FunctionDef frames)
    statements,         \* program->statements of the Program under construction
    declaredFunctions,  \* Parser::declaredFunctions / PeglibParser::declaredFunctions
    calledFunctions,    \* Parser::calledFunctions / PeglibParser::calledFunctions
    outcome,            \* how parse() ended: running, returned, or the exception thrown
    ast,                \* the Program parse() returned, NoProgram before and on a throw
    previous,           \* what the earlier parse() runs on these tokens ended with
    genState,           \* ArduinoGenerator::generate: "idle", "walking", "done", "aborted"
    work,               \* the rest of the generator's walk, next step first
    indentLevel,        \* ArduinoGenerator::indentLevel
    generatedCode,      \* ArduinoGenerator::generatedCode, the control buffer
    setupCode,          \* ArduinoGenerator::setupCode
    variableDeclarations, \* ArduinoGenerator::variableDeclarations, the hoisted definitions
    calls,              \* open generateFunction activations: funcCode, savedIndent, savedSize
    sketch,             \* the text generate() returned
    frontEnd,           \* the parser of this run: "Parser", "lines" or "peg" (PeglibParser)
    source,             \* PeglibParser::source
    lines,              \* the trimmed lines PeglibParser::parse keeps
    index,              \* the line index parseStatements advances
    matches,            \* the rules the PEG grammar matched, their actions still to run
    accepted            \* whether peg::parser::parse accepts the source

parserVars == <<tokens, pos, stack, statements, declaredFunctions, calledFunctions,
                outcome, ast, previous>>

genVars == <<genState, work, indentLevel, generatedCode, setupCode,
             variableDeclarations, calls, sketch>>

frontVars == <<frontEnd, source, lines, index, matches, accepted>>

vars == <<parserVars, genVars, frontVars>>

(***************************************************************************)
(* Bounds of the model.                                                    *)
(***************************************************************************)
MaxChunks == 3

\* The source of a line-based PeglibParser has at most MaxLines lines.
MaxLines == 3

\* An input of nested IF statements has at most MaxIfChunks pieces (headers,
\* ELSE, END, STOP).
MaxIfChunks == 6

\* The PEG grammar matches at most MaxMatches rules that carry an action.
MaxMatches == 2

\* A Program handed to the generator has at most MaxStatements statements.
MaxStatements == 2

\* A sequence of leaf statements has at most MaxLeaves statements.
MaxLeaves == 4

\* generate() is called at most MaxCalls times on one ArduinoGenerator.
MaxCalls == 3

(***************************************************************************)
(* Characters, std::stoi, std::to_string.                                  *)
(***************************************************************************)
INT_MAX == 2147483647

Digits == {"0", "1", "2", "3", "4", "5", "6", "7", "8", "9"}

DigitVal(c) ==
    CASE c = "0" -> 0 [] c = "1" -> 1 [] c = "2" -> 2 [] c = "3" -> 3 [] c = "4" -> 4
      [] c = "5" -> 5 [] c = "6" -> 6 [] c = "7" -> 7 [] c = "8" -> 8 [] c = "9" -> 9

DigitChar(d) ==
    CASE d = 0 -> "0" [] d = 1 -> "1" [] d = 2 -> "2" [] d = 3 -> "3" [] d = 4 -> "4"
      [] d = 5 -> "5" [] d = 6 -> "6" [] d = 7 -> "7" [] d = 8 -> "8" [] d = 9 -> "9"

IsSpace(c) == c \in {" ", "\t", "\r", "\n"}

\* The digits at the front of s folded into acc; over is set once the value
\* leaves the range of int.  n counts the digits read.
\* The recursive text operators take the value of each argument once, by
\* binding it in a one-element set: the text that is left, not the
\* expression that computes it, is what goes down the recursion.
RECURSIVE StoiDigits(_, _, _, _)
StoiDigits(str, sum, count, overflow) ==
    CHOOSE r \in
        { IF s = "" \/ Head(s) \notin Digits
          THEN [value |-> acc, digits |-> n, over |-> over]
          ELSE IF over \/ acc > (INT_MAX - DigitVal(Head(s))) \div 10
               THEN StoiDigits(Tail(s), acc, n + 1, TRUE)
               ELSE StoiDigits(Tail(s), acc * 10 + DigitVal(Head(s)), n + 1, FALSE)
          : s \in {str}, acc \in {sum}, n \in {count}, over \in {overflow} } : TRUE

RECURSIVE SkipSpaces(_)
SkipSpaces(str) ==
    CHOOSE r \in { IF s # "" /\ IsSpace(Head(s)) THEN SkipSpaces(Tail(s)) ELSE s
                   : s \in {str} } : TRUE

\* std::stoi(s): leading white space, an optional sign, then the longest run
\* of digits; invalid_argument when there is no digit, out_of_range when the
\* value does not fit an int.  -2147483648 is cut to out_of_range as well:
\* no input of the model carries it.
Stoi(s) ==
    LET t    == SkipSpaces(s)
        neg  == t # "" /\ Head(t) = "-"
        sgn  == t # "" /\ Head(t) \in {"-", "+"}
        body == IF sgn THEN Tail(t) ELSE t
        r    == StoiDigits(body, 0, 0, FALSE)
    IN  IF r.digits = 0 THEN [ok |-> FALSE, value |-> 0, what |-> "stoi"]
        ELSE IF r.over THEN [ok |-> FALSE, value |-> 0, what |-> "stoi"]
        ELSE [ok |-> TRUE, value |-> IF neg THEN 0 - r.value ELSE r.value, what |-> ""]

RECURSIVE DecimalDigits(_)
DecimalDigits(n) ==
    IF n < 10 THEN DigitChar(n) ELSE DecimalDigits(n \div 10) \o DigitChar(n % 10)

\* std::to_string(int)
to_string(n) == IF n < 0 THEN "-" \o DecimalDigits(0 - n) ELSE DecimalDigits(n)

\* int + int and int * int as a 32-bit build computes them.  A sum or
\* product that does not fit an int is undefined behaviour: the build either
\* keeps the low 32 bits (two's complement) or traps.
INT_MIN == 0 - INT_MAX - 1

WrapAdd(x, y) ==
    IF x >= 0 /\ y > INT_MAX - x THEN ((x - INT_MAX) + (y - INT_MAX)) - 2
    ELSE IF x < 0 /\ y < INT_MIN - x THEN ((x + INT_MAX) + (y + INT_MAX)) + 2
    ELSE x + y

RECURSIVE WrapMul(_, _)
WrapMul(a, b) == IF b = 0 THEN 0 ELSE WrapAdd(WrapMul(a, b - 1), a)

\* a * b for a >= 0 and a small b > 0
SignedMul(a, b) ==
    IF a <= INT_MAX \div b
    THEN {[trap |-> FALSE, value |-> a * b]}
    ELSE {[trap |-> FALSE, value |-> WrapMul(a, b)], [trap |-> TRUE, value |-> 0]}

(***************************************************************************)
(* Tokens (include/lexer.h).  line and column only feed error messages and *)
(* are left out.                                                           *)
(***************************************************************************)
Token(t, v) == [type |-> t, value |-> v]

KW(v)  == Token("KEYWORD", v)
ID(v)  == Token("IDENTIFIER", v)
NUM(v) == Token("NUMBER", v)
STR(v) == Token("STRING", v)
OP(v)  == Token("OPERATOR", v)

\* The token Lexer::getNextToken returns at the end of the source, and the
\* static eof of Parser::peek.
EofToken == Token("END_OF_FILE", "EOF")

\* Token::typeToString
typeToString(tok) == IF tok.type = "END_OF_FILE" THEN "EOF" ELSE tok.type

(***************************************************************************)
(* AST nodes (ast.h) as records; "type" is the discriminator toJson emits. *)
(***************************************************************************)
NoProgram == [type |-> "none"]
Program(stmts) == [type |-> "Program", statements |-> stmts]

RobotDeclaration(n)  == [type |-> "RobotDeclaration", name |-> n]
MoveStatement(d, n)  == [type |-> "Move", direction |-> d, distance |-> n]
TurnStatement(d, n)  == [type |-> "Turn", direction |-> d, angle |-> n]
StopStatement        == [type |-> "Stop"]
Condition(l, o, r)   == [type |-> "Condition", left |-> l, op |-> o, right |-> r]
IfStatement(c, t, e) == [type |-> "If", condition |-> c, thenBody |-> t, elseBody |-> e]
WhileStatement(c, b) == [type |-> "While", condition |-> c, body |-> b]
RepeatStatement(n, b) == [type |-> "Repeat", times |-> n, body |-> b]
LEDStatement(s, c)   == [type |-> "LED", state |-> s, color |-> c]
ServoStatement(n, a) == [type |-> "Servo", name |-> n, angle |-> a]
MotorStatement(n, s) == [type |-> "Motor", name |-> n, speed |-> s]
WaitStatement(d)     == [type |-> "Wait", duration |-> d]
FunctionDef(n, b)    == [type |-> "Function", name |-> n, body |-> b]
CallStatement(n)     == [type |-> "Call", name |-> n]
SendStatement(m)     == [type |-> "Send", message |-> m]

(***************************************************************************)
(* Exceptions (include/exceptions.h).                                      *)
(***************************************************************************)
Running  == [kind |-> "running"]
Returned == [kind |-> "returned"]
ParserException(msg, expected, found) ==
    [kind |-> "ParserException", message |-> msg, expected |-> expected, found |-> found]
SemanticException(msg, ctx) ==
    [kind |-> "SemanticException", message |-> msg, context |-> ctx]

(***************************************************************************)
(* Parser: token access.                                                   *)
(***************************************************************************)
\* Parser::peek at position p (0-based, as in the code)
PeekAt(p) == IF p >= Len(tokens) THEN EofToken ELSE tokens[p + 1]

Peek == PeekAt(pos)

\* Parser::check(const std::string&)
Check(value) == Peek.value = value

\* Parser::check(TokenType)
CheckType(type) == Peek.type = type

\* Parser::consume() at position p: the token and the new position, or the throw
Consume(p) ==
    IF p >= Len(tokens)
    THEN [ok |-> FALSE, pos |-> p, tok |-> EofToken,
          error |-> ParserException("Unexpected end of input", "token", "EOF")]
    ELSE [ok |-> TRUE, pos |-> p + 1, tok |-> tokens[p + 1], error |-> Running]

\* Parser::consume(expected) at position p
ConsumeExpected(p, expected) ==
    IF PeekAt(p).value # expected
    THEN [ok |-> FALSE, pos |-> p, tok |-> PeekAt(p),
          error |-> ParserException("Unexpected token", expected, PeekAt(p).value)]
    ELSE [ok |-> TRUE, pos |-> p + 1, tok |-> PeekAt(p), error |-> Running]

\* The catch (const std::exception&) of parseStatement: a throw of std::stoi
\* leaves as a ParserException carrying the statement's first token.
StoiFailure(first) ==
    ParserException("Error parsing statement: stoi", "Valid statement", first.value)

(***************************************************************************)
(* Parser: the statement rules.  Each rule is computed from the position   *)
(* of its first token and yields the node built and the position reached,  *)
(* or the exception thrown and the position at the throw.                  *)
(***************************************************************************)
RuleOk(p, node) == [ok |-> TRUE, pos |-> p, node |-> node, error |-> Running]
RuleErr(p, e)   == [ok |-> FALSE, pos |-> p, node |-> NoProgram, error |-> e]

\* A NUMBER operand: the type check of the rule, then std::stoi.
NumberOperand(c, first, msg) ==
    IF c.tok.type # "NUMBER"
    THEN [ok |-> FALSE, value |-> 0, error |-> ParserException(msg, "NUMBER", typeToString(c.tok))]
    ELSE LET n == Stoi(c.tok.value)
         IN  IF n.ok THEN [ok |-> TRUE, value |-> n.value, error |-> Running]
             ELSE [ok |-> FALSE, value |-> 0, error |-> StoiFailure(first)]

parseRobotDeclaration(p) ==
    LET c1 == ConsumeExpected(p, "ROBOT")
        c2 == Consume(c1.pos)
    IN  IF ~c1.ok THEN RuleErr(c1.pos, c1.error)
        ELSE IF ~c2.ok THEN RuleErr(c2.pos, c2.error)
        ELSE RuleOk(c2.pos, RobotDeclaration(c2.tok.value))

parseMoveStatement(p) ==
    LET c1 == ConsumeExpected(p, "MOVE")
        c2 == Consume(c1.pos)
        c3 == Consume(c2.pos)
        n  == NumberOperand(c3, PeekAt(p), "Movement distance must be a number")
    IN  IF ~c1.ok THEN RuleErr(c1.pos, c1.error)
        ELSE IF ~c2.ok THEN RuleErr(c2.pos, c2.error)
        ELSE IF c2.tok.value # "forward" /\ c2.tok.value # "backward"
        THEN RuleErr(c2.pos, SemanticException("Invalid movement direction: " \o c2.tok.value,
                                               "Expected 'forward' or 'backward'"))
        ELSE IF ~c3.ok THEN RuleErr(c3.pos, c3.error)
        ELSE IF ~n.ok THEN RuleErr(c3.pos, n.error)
        ELSE IF n.value < 0
        THEN RuleErr(c3.pos, SemanticException("Movement distance must be positive",
                                               "Found: " \o to_string(n.value)))
        ELSE RuleOk(c3.pos, MoveStatement(c2.tok.value, n.value))

parseTurnStatement(p) ==
    LET c1 == ConsumeExpected(p, "TURN")
        c2 == Consume(c1.pos)
        c3 == Consume(c2.pos)
        n  == NumberOperand(c3, PeekAt(p), "Turn angle must be a number")
    IN  IF ~c1.ok THEN RuleErr(c1.pos, c1.error)
        ELSE IF ~c2.ok THEN RuleErr(c2.pos, c2.error)
        ELSE IF c2.tok.value # "left" /\ c2.tok.value # "right"
        THEN RuleErr(c2.pos, SemanticException("Invalid turn direction: " \o c2.tok.value,
                                               "Expected 'left' or 'right'"))
        ELSE IF ~c3.ok THEN RuleErr(c3.pos, c3.error)
        ELSE IF ~n.ok THEN RuleErr(c3.pos, n.error)
        ELSE RuleOk(c3.pos, TurnStatement(c2.tok.value, n.value))

parseStopStatement(p) ==
    LET c1 == ConsumeExpected(p, "STOP")
    IN  IF ~c1.ok THEN RuleErr(c1.pos, c1.error)
        ELSE RuleOk(c1.pos, StopStatement)

\* parseLEDStatement taking any token that is not a keyword as the colour
parseLEDStatementGreedy(p) ==
    LET c1 == ConsumeExpected(p, "LED")
        c2 == Consume(c1.pos)
        c3 == Consume(c2.pos)
    IN  IF ~c1.ok THEN RuleErr(c1.pos, c1.error)
        ELSE IF ~c2.ok THEN RuleErr(c2.pos, c2.error)
        ELSE IF c2.tok.value # "on" /\ c2.tok.value # "off"
        THEN RuleErr(c2.pos, SemanticException("LED state must be 'on' or 'off'",
                                               "Found: " \o c2.tok.value))
        ELSE IF PeekAt(c2.pos).type \notin {"KEYWORD", "END_OF_FILE"}
        THEN (IF ~c3.ok THEN RuleErr(c3.pos, c3.error)
              ELSE RuleOk(c3.pos, LEDStatement(c2.tok.value, c3.tok.value)))
        ELSE RuleOk(c2.pos, LEDStatement(c2.tok.value, ""))

parseLEDStatement(p) ==
    LET c1 == ConsumeExpected(p, "LED")
        c2 == Consume(c1.pos)
        c3 == Consume(c2.pos)
    IN  IF ~c1.ok THEN RuleErr(c1.pos, c1.error)
        ELSE IF ~c2.ok THEN RuleErr(c2.pos, c2.error)
        ELSE IF c2.tok.value # "on" /\ c2.tok.value # "off"
        THEN RuleErr(c2.pos, SemanticException("LED state must be 'on' or 'off'",
                                               "Found: " \o c2.tok.value))
        ELSE IF PeekAt(c2.pos).type = "IDENTIFIER"
        THEN (IF ~c3.ok THEN RuleErr(c3.pos, c3.error)
              ELSE RuleOk(c3.pos, LEDStatement(c2.tok.value, c3.tok.value)))
        ELSE RuleOk(c2.pos, LEDStatement(c2.tok.value, ""))

parseServoStatement(p) ==
    LET c1 == ConsumeExpected(p, "SERVO")
        c2 == Consume(c1.pos)
        c3 == ConsumeExpected(c2.pos, "TO")
        c4 == Consume(c3.pos)
        n  == NumberOperand(c4, PeekAt(p), "Servo angle must be a number")
    IN  IF ~c1.ok THEN RuleErr(c1.pos, c1.error)
        ELSE IF ~c2.ok THEN RuleErr(c2.pos, c2.error)
        ELSE IF ~c3.ok THEN RuleErr(c3.pos, c3.error)
        ELSE IF ~c4.ok THEN RuleErr(c4.pos, c4.error)
        ELSE IF ~n.ok THEN RuleErr(c4.pos, n.error)
        ELSE RuleOk(c4.pos, ServoStatement(c2.tok.value, n.value))

parseMotorStatement(p) ==
    LET c1 == ConsumeExpected(p, "MOTOR")
        c2 == Consume(c1.pos)
        c3 == ConsumeExpected(c2.pos, "SPEED")
        c4 == Consume(c3.pos)
        n  == NumberOperand(c4, PeekAt(p), "Motor speed must be a number")
    IN  IF ~c1.ok THEN RuleErr(c1.pos, c1.error)
        ELSE IF ~c2.ok THEN RuleErr(c2.pos, c2.error)
        ELSE IF ~c3.ok THEN RuleErr(c3.pos, c3.error)
        ELSE IF ~c4.ok THEN RuleErr(c4.pos, c4.error)
        ELSE IF ~n.ok THEN RuleErr(c4.pos, n.error)
        ELSE IF n.value < 0 \/ n.value > 100
        THEN RuleErr(c4.pos, SemanticException("Motor speed must be between 0 and 100",
                                               "Found: " \o to_string(n.value)))
        ELSE RuleOk(c4.pos, MotorStatement(c2.tok.value, n.value))

parseWaitStatement(p) ==
    LET c1 == ConsumeExpected(p, "WAIT")
        c2 == Consume(c1.pos)
        n  == NumberOperand(c2, PeekAt(p), "Wait duration must be a number")
    IN  IF ~c1.ok THEN RuleErr(c1.pos, c1.error)
        ELSE IF ~c2.ok THEN RuleErr(c2.pos, c2.error)
        ELSE IF ~n.ok THEN RuleErr(c2.pos, n.error)
        ELSE RuleOk(c2.pos, WaitStatement(n.value))

parseCallStatement(p) ==
    LET c1 == ConsumeExpected(p, "CALL")
        c2 == Consume(c1.pos)
    IN  IF ~c1.ok THEN RuleErr(c1.pos, c1.error)
        ELSE IF ~c2.ok THEN RuleErr(c2.pos, c2.error)
        ELSE RuleOk(c2.pos, CallStatement(c2.tok.value))

parseSendStatement(p) ==
    LET c1 == ConsumeExpected(p, "SEND")
        c2 == ConsumeExpected(c1.pos, "message")
        c3 == Consume(c2.pos)
    IN  IF ~c1.ok THEN RuleErr(c1.pos, c1.error)
        ELSE IF ~c2.ok THEN RuleErr(c2.pos, c2.error)
        ELSE IF ~c3.ok THEN RuleErr(c3.pos, c3.error)
        ELSE IF c3.tok.type # "STRING"
        THEN RuleErr(c3.pos, ParserException("Send message must be a string", "STRING",
                                             typeToString(c3.tok)))
        ELSE RuleOk(c3.pos, SendStatement(c3.tok.value))

\* Parser::parseCondition from position p: three tokens, whatever they are.
parseCondition(p) ==
    LET l == Consume(p)
        o == Consume(l.pos)
        r == Consume(o.pos)
    IN  IF ~l.ok THEN RuleErr(l.pos, l.error)
        ELSE IF ~o.ok THEN RuleErr(o.pos, o.error)
        ELSE IF ~r.ok THEN RuleErr(r.pos, r.error)
        ELSE RuleOk(r.pos, Condition(l.tok.value, o.tok.value, r.tok.value))

(***************************************************************************)
(* Parser: the open compound rules.  A frame is the activation of          *)
(* parseIfStatement, parseWhileStatement, parseRepeatStatement or          *)
(* parseFunctionDef that is inside its parseBlock call; body is the vector *)
(* that parseBlock is filling.                                             *)
(***************************************************************************)
NoCondition == Condition("", "", "")

Frame(rule, cond, times, name) ==
    [rule |-> rule, condition |-> cond, times |-> times, name |-> name,
     inElse |-> FALSE, thenBody |-> <<>>, body |-> <<>>]

Top == stack[Len(stack)]

\* The terminator the open rule handed to parseBlock.
Terminator == IF Top.rule = "If" /\ ~Top.inElse THEN "ELSE" ELSE "END"

\* The loop condition of Parser::parse.
ProgramLoopContinues ==
    ~Check("EOF") /\ Peek.type # "END_OF_FILE" /\ ~Check("END")

\* The loop condition of Parser::parseBlock and its safety check.
parseBlockContinues(terminator) ==
    /\ ~Check(terminator) /\ ~Check("EOF") /\ Peek.type # "END_OF_FILE"
    /\ ~(Check("END") \/ Check("ELSE") \/ Check("DO"))

\* A parse loop that goes on calling parseStatement after a rule has thrown.
AtStatementAfterError ==
    /\ frontEnd = "Parser"
    /\ outcome.kind # "returned"
    /\ IF stack = <<>> THEN ProgramLoopContinues ELSE parseBlockContinues(Terminator)

\* parse() or parseBlock is about to call parseStatement.
AtStatement ==
    /\ frontEnd = "Parser"
    /\ outcome = Running
    /\ IF stack = <<>> THEN ProgramLoopContinues ELSE parseBlockContinues(Terminator)

\* parseBlock has returned to the open rule.
AtBlockEnd ==
    /\ frontEnd = "Parser"
    /\ outcome = Running
    /\ stack # <<>>
    /\ ~parseBlockContinues(Terminator)

\* A push that puts the new node in front of the nodes already there.
PushStatementFront(node) ==
    IF stack = <<>>
    THEN /\ statements' = << node >> \o statements
         /\ UNCHANGED stack
    ELSE /\ stack' = [stack EXCEPT ![Len(stack)].body = << node >> \o @]
         /\ UNCHANGED statements

\* statements.push_back(stmt) of parseBlock, program->statements.push_back of parse
PushStatement(node) ==
    IF stack = <<>>
    THEN /\ statements' = Append(statements, node)
         /\ UNCHANGED stack
    ELSE /\ stack' = [stack EXCEPT ![Len(stack)].body = Append(@, node)]
         /\ UNCHANGED statements

\* A throw that puts the cursor back at the first token.
ThrowRewinding(p, e) ==
    /\ outcome' = e
    /\ pos' = 0
    /\ UNCHANGED <<tokens, stack, statements, declaredFunctions, calledFunctions,
                   ast, previous, genVars, frontVars>>

\* An exception leaves parse(): nothing is returned.  stack and statements
\* keep what had been built when it was thrown.
Throw(p, e) ==
    /\ outcome' = e
    /\ pos' = p
    /\ UNCHANGED <<tokens, stack, statements, declaredFunctions, calledFunctions,
                   ast, previous, genVars, frontVars>>

\* A leaf rule called from parseStatement, its node pushed by the caller.
LeafStatement(r) ==
    IF r.ok
    THEN /\ pos' = r.pos
         /\ PushStatement(r.node)
         /\ UNCHANGED <<tokens, declaredFunctions, calledFunctions, outcome, ast, previous, genVars, frontVars>>
    ELSE Throw(r.pos, r.error)

StatementKeywords ==
    {"ROBOT", "MOVE", "TURN", "STOP", "IF", "WHILE", "REPEAT", "LED", "SERVO",
     "MOTOR", "WAIT", "FUNCTION", "CALL", "SEND"}

(***************************************************************************)
(* Parser: one action per branch of parseStatement.                        *)
(***************************************************************************)
DispatchRobot == AtStatement /\ Check("ROBOT") /\ LeafStatement(parseRobotDeclaration(pos))
DispatchMove  == AtStatement /\ Check("MOVE")  /\ LeafStatement(parseMoveStatement(pos))
DispatchTurn  == AtStatement /\ Check("TURN")  /\ LeafStatement(parseTurnStatement(pos))
DispatchStop  == AtStatement /\ Check("STOP")  /\ LeafStatement(parseStopStatement(pos))
DispatchLED   == AtStatement /\ Check("LED")   /\ LeafStatement(parseLEDStatement(pos))
DispatchServo == AtStatement /\ Check("SERVO") /\ LeafStatement(parseServoStatement(pos))
DispatchMotor == AtStatement /\ Check("MOTOR") /\ LeafStatement(parseMotorStatement(pos))
DispatchWait  == AtStatement /\ Check("WAIT")  /\ LeafStatement(parseWaitStatement(pos))
DispatchSend  == AtStatement /\ Check("SEND")  /\ LeafStatement(parseSendStatement(pos))

\* A parseCallStatement that builds its node and registers nothing.
DispatchCallUnregistered ==
    AtStatement /\ Check("CALL") /\ LeafStatement(parseCallStatement(pos))

\* parseCallStatement also registers the callee.
DispatchCall ==
    /\ AtStatement /\ Check("CALL")
    /\ LET r == parseCallStatement(pos)
       IN  IF r.ok
           THEN /\ pos' = r.pos
                /\ calledFunctions' = calledFunctions \cup {r.node.name}
                /\ PushStatement(r.node)
                /\ UNCHANGED <<tokens, declaredFunctions, outcome, ast, previous, genVars, frontVars>>
           ELSE Throw(r.pos, r.error)

\* The final else of parseStatement.  Its "else if (check("END"))" and the two
\* early returns at the top cannot be taken: parse and parseBlock call
\* parseStatement only where the token is neither END nor END_OF_FILE.
DispatchUnknown ==
    /\ AtStatement
    /\ Peek.value \notin StatementKeywords
    /\ Throw(pos, ParserException("Unknown statement type", "Valid statement keyword",
                                  Peek.value))

\* Entering a block: the header is consumed and parseBlock starts.
OpenBlock(p, frame) ==
    /\ pos' = p
    /\ stack' = Append(stack, frame)
    /\ UNCHANGED <<tokens, statements, calledFunctions, outcome, ast, previous, genVars, frontVars>>

\* parseIfStatement up to parseBlock("ELSE")
IfHeader ==
    /\ AtStatement /\ Check("IF")
    /\ LET c1 == ConsumeExpected(pos, "IF")
           c  == parseCondition(c1.pos)
           c2 == ConsumeExpected(c.pos, "THEN")
       IN  IF ~c.ok THEN Throw(c.pos, c.error)
           ELSE IF ~c2.ok THEN Throw(c2.pos, c2.error)
           ELSE OpenBlock(c2.pos, Frame("If", c.node, 0, "")) /\ UNCHANGED declaredFunctions

\* parseWhileStatement up to parseBlock("END")
WhileHeader ==
    /\ AtStatement /\ Check("WHILE")
    /\ LET c1 == ConsumeExpected(pos, "WHILE")
           c  == parseCondition(c1.pos)
           c2 == ConsumeExpected(c.pos, "DO")
       IN  IF ~c.ok THEN Throw(c.pos, c.error)
           ELSE IF ~c2.ok THEN Throw(c2.pos, c2.error)
           ELSE OpenBlock(c2.pos, Frame("While", c.node, 0, "")) /\ UNCHANGED declaredFunctions

\* parseRepeatStatement up to parseBlock("END")
RepeatHeader ==
    /\ AtStatement /\ Check("REPEAT")
    /\ LET c1 == ConsumeExpected(pos, "REPEAT")
           c2 == Consume(c1.pos)
           n  == NumberOperand(c2, Peek, "Repeat count must be a number")
           c3 == ConsumeExpected(c2.pos, "TIMES")
       IN  IF ~c2.ok THEN Throw(c2.pos, c2.error)
           ELSE IF ~n.ok THEN Throw(c2.pos, n.error)
           ELSE IF ~c3.ok THEN Throw(c3.pos, c3.error)
           ELSE OpenBlock(c3.pos, Frame("Repeat", NoCondition, n.value, ""))
                /\ UNCHANGED declaredFunctions

\* parseFunctionDef up to parseBlock("END"): the name is registered before
\* the body is parsed.
FunctionHeader ==
    /\ AtStatement /\ Check("FUNCTION")
    /\ LET c1 == ConsumeExpected(pos, "FUNCTION")
           c2 == Consume(c1.pos)
       IN  IF ~c2.ok THEN Throw(c2.pos, c2.error)
           ELSE /\ declaredFunctions' = declaredFunctions \cup {c2.tok.value}
                /\ OpenBlock(c2.pos, Frame("Function", NoCondition, 0, c2.tok.value))

\* parseIfStatement: if (check("ELSE")) { consume("ELSE"); elseBody = parseBlock("END"); }
IfElse ==
    /\ AtBlockEnd
    /\ Top.rule = "If" /\ ~Top.inElse
    /\ Check("ELSE")
    /\ pos' = pos + 1
    /\ stack' = [stack EXCEPT ![Len(stack)] =
                    [@ EXCEPT !.inElse = TRUE, !.thenBody = Top.body, !.body = <<>>]]
    /\ UNCHANGED <<tokens, statements, declaredFunctions, calledFunctions, outcome,
                   ast, previous, genVars, frontVars>>

\* A node whose THEN and ELSE blocks have changed places.
FrameNodeSwapped(f) ==
    CASE f.rule = "If" ->
            IF f.inElse THEN IfStatement(f.condition, f.body, f.thenBody)
            ELSE IfStatement(f.condition, <<>>, f.body)
      [] f.rule = "While"    -> WhileStatement(f.condition, f.body)
      [] f.rule = "Repeat"   -> RepeatStatement(f.times, f.body)
      [] f.rule = "Function" -> FunctionDef(f.name, f.body)

\* The node the open rule builds once its END is consumed.
FrameNode(f) ==
    CASE f.rule = "If" ->
            IF f.inElse THEN IfStatement(f.condition, f.thenBody, f.body)
            ELSE IfStatement(f.condition, f.body, <<>>)
      [] f.rule = "While"    -> WhileStatement(f.condition, f.body)
      [] f.rule = "Repeat"   -> RepeatStatement(f.times, f.body)
      [] f.rule = "Function" -> FunctionDef(f.name, f.body)

\* A rule that takes its END only if it is there, as parse() does at top level.
CloseBlockLenient ==
    LET outer == SubSeq(stack, 1, Len(stack) - 1)
    IN  /\ pos' = IF Check("END") THEN pos + 1 ELSE pos
        /\ IF outer = <<>>
           THEN /\ statements' = Append(statements, FrameNode(Top))
                /\ stack' = outer
           ELSE /\ stack' = [outer EXCEPT ![Len(outer)].body = Append(@, FrameNode(Top))]
                /\ UNCHANGED statements
        /\ UNCHANGED <<tokens, declaredFunctions, calledFunctions, outcome, ast, previous, genVars, frontVars>>

\* consume("END") of the open rule, the node built and pushed by the caller.
CloseBlock ==
    LET c == ConsumeExpected(pos, "END")
        outer == SubSeq(stack, 1, Len(stack) - 1)
    IN  IF ~c.ok THEN Throw(c.pos, c.error)
        ELSE /\ pos' = c.pos
             /\ IF outer = <<>>
                THEN /\ statements' = Append(statements, FrameNode(Top))
                     /\ stack' = outer
                ELSE /\ stack' = [outer EXCEPT ![Len(outer)].body = Append(@, FrameNode(Top))]
                     /\ UNCHANGED statements
             /\ UNCHANGED <<tokens, declaredFunctions, calledFunctions, outcome, ast, previous, genVars, frontVars>>

IfEnd ==
    /\ AtBlockEnd /\ Top.rule = "If"
    /\ Top.inElse \/ ~Check("ELSE")
    /\ CloseBlock

WhileEnd    == AtBlockEnd /\ Top.rule = "While"    /\ CloseBlock
RepeatEnd   == AtBlockEnd /\ Top.rule = "Repeat"   /\ CloseBlock
FunctionEnd == AtBlockEnd /\ Top.rule = "Function" /\ CloseBlock

(***************************************************************************)
(* Parser: semanticAnalysis and the end of parse().                        *)
(***************************************************************************)
\* The orders in which an unordered_set may be iterated.
IterationOrders(S) ==
    {s \in [1..Cardinality(S) -> S] : \A i, j \in 1..Cardinality(S) : i # j => s[i] # s[j]}

RECURSIVE JoinNames(_)
JoinNames(names) ==
    IF names = <<>> THEN ""
    ELSE IF Len(names) = 1 THEN names[1]
    ELSE names[1] \o ", " \o JoinNames(Tail(names))

\* Parser::semanticAnalysis: the exceptions it may throw (which undefined name
\* comes first, and the order of the listing, follow the iteration order of
\* the unordered_set); the empty set when it returns.
semanticAnalysis(declared, called) ==
    {SemanticException("Function '" \o f \o "' is called but never defined",
                       "Available functions: " \o
                           (IF declared = {} THEN "none" ELSE JoinNames(order)))
        : f \in called \ declared, order \in IterationOrders(declared)}

\* Parser::parse after its loop: the final END, semanticAnalysis, the return.
ParseReturn ==
    /\ frontEnd = "Parser"
    /\ outcome = Running
    /\ stack = <<>>
    /\ ~ProgramLoopContinues
    /\ pos' = IF Check("END") THEN pos + 1 ELSE pos
    /\ LET errors == semanticAnalysis(declaredFunctions, calledFunctions)
       IN  IF errors = {}
           THEN outcome' = Returned /\ ast' = Program(statements)
           ELSE outcome' \in errors /\ UNCHANGED ast
    /\ UNCHANGED <<tokens, stack, statements, declaredFunctions, calledFunctions, previous, genVars, frontVars>>

(***************************************************************************)
(* The line-based PeglibParser: text helpers.                              *)
(***************************************************************************)
Constructed == [kind |-> "constructed"]

\* The position, from i on, of the first character c of s; 0 if there is none
RECURSIVE FindFirst(_, _, _)
FindFirst(s, i, c) ==
    IF i > Len(s) THEN 0
    ELSE IF SubSeq(s, i, i) = c THEN i
    ELSE FindFirst(s, i + 1, c)

\* std::getline(ss, token, delimiter) until the stream is exhausted
RECURSIVE getline(_, _)
getline(str, delimiter) ==
    CHOOSE r \in
        { IF s = "" THEN << >>
          ELSE IF i = 0 THEN << s >>
          ELSE << SubSeq(s, 1, i - 1) >> \o getline(SubSeq(s, i + 1, Len(s)), delimiter)
          : s \in {str}, i \in {FindFirst(str, 1, delimiter)} } : TRUE

RECURSIVE TrimLeft(_)
TrimLeft(str) ==
    CHOOSE r \in { IF s # "" /\ IsSpace(Head(s)) THEN TrimLeft(Tail(s)) ELSE s
                   : s \in {str} } : TRUE

RECURSIVE TrimRight(_)
TrimRight(str) ==
    CHOOSE r \in { IF s # "" /\ IsSpace(SubSeq(s, Len(s), Len(s)))
                   THEN TrimRight(SubSeq(s, 1, Len(s) - 1))
                   ELSE s
                   : s \in {str} } : TRUE

\* trim: from the first to the last character that is not " \t\r\n"
trim(str) == TrimRight(TrimLeft(str))

\* The entries of strs, trimmed, the empty ones dropped
RECURSIVE TrimAll(_)
TrimAll(strs) ==
    IF strs = << >> THEN << >>
    ELSE CHOOSE r \in { (IF t # "" THEN << t >> ELSE << >>) \o TrimAll(rest)
                        : t \in {trim(Head(strs))}, rest \in {Tail(strs)} } : TRUE

\* split(str, delimiter)
split(str, delimiter) == TrimAll(getline(str, delimiter))

\* The lines PeglibParser::parse keeps: trimmed, not empty, not a comment
RECURSIVE KeptLines(_)
KeptLines(strs) ==
    IF strs = << >> THEN << >>
    ELSE CHOOSE r \in { (IF t # "" /\ Head(t) # "#" THEN << t >> ELSE << >>)
                            \o KeptLines(rest)
                        : t \in {trim(Head(strs))}, rest \in {Tail(strs)} } : TRUE

\* line.find(prefix) == 0
StartsWith(line, prefix) ==
    Len(line) >= Len(prefix) /\ SubSeq(line, 1, Len(prefix)) = prefix

(***************************************************************************)
(* The line-based PeglibParser: parse, parseStatements and the rules.      *)
(***************************************************************************)
\* PeglibParser::PeglibParser(sourceCode)
NewPeglibParser(sourceCode) ==
    /\ frontEnd = "lines"
    /\ source = sourceCode
    /\ lines = << >>
    /\ index = 0
    /\ matches = << >>
    /\ accepted = FALSE
    /\ tokens = << >>
    /\ pos = 0
    /\ stack = << >>
    /\ statements = << >>
    /\ declaredFunctions = {}
    /\ calledFunctions = {}
    /\ outcome = Constructed
    /\ ast = NoProgram

\* PeglibParser::parse up to the call of parseStatements
SplitLines ==
    /\ frontEnd = "lines"
    /\ outcome = Constructed
    /\ lines' = KeptLines(getline(source, "\n"))
    /\ index' = 0
    /\ outcome' = Running
    /\ UNCHANGED <<tokens, pos, stack, statements, declaredFunctions, calledFunctions,
                   ast, previous, genVars, frontEnd, source, matches, accepted>>

Line == lines[index + 1]

\* The while loop of parseStatements goes on to one more line.
AtLine ==
    /\ frontEnd = "lines"
    /\ outcome = Running
    /\ index < Len(lines)
    /\ Line # "END"

\* The while loop of parseStatements is left.
AtLinesEnd ==
    /\ frontEnd = "lines"
    /\ outcome = Running
    /\ IF index < Len(lines) THEN Line = "END" ELSE TRUE

\* One line handled by a rule that returns a node or nullptr: the node, if
\* any, is pushed and the index advances.
LineDone(r) ==
    /\ index' = index + 1
    /\ IF r.ok THEN PushStatement(r.node) ELSE UNCHANGED <<stack, statements>>
    /\ UNCHANGED <<tokens, pos, declaredFunctions, calledFunctions, outcome, ast,
                   previous, genVars, frontEnd, source, lines, matches, accepted>>

Node(n) == [ok |-> TRUE, node |-> n]

Nullptr == [ok |-> FALSE, node |-> NoProgram]

\* PeglibParser::parseWait
LineWaitRule(line) ==
    LET parts == split(line, " ")
    IN  IF Len(parts) < 2 THEN Nullptr
        ELSE LET duration == Stoi(parts[2])
             IN  IF duration.ok THEN Node(WaitStatement(duration.value)) ELSE Nullptr

\* PeglibParser::parseLED
LineLEDRule(line) ==
    LET parts == split(line, " ")
    IN  IF Len(parts) < 2 THEN Nullptr
        ELSE Node(LEDStatement(parts[2], IF Len(parts) > 2 THEN parts[3] ELSE ""))

\* A clamp that lets every speed through.
ClampNothing(speed) == speed

\* if (speed < 0) speed = 0; if (speed > 100) speed = 100;
Clamp(speed) == IF speed < 0 THEN 0 ELSE IF speed > 100 THEN 100 ELSE speed

\* PeglibParser::parseMotor
LineMotorRule(line) ==
    LET parts == split(line, " ")
        made(name, speed) ==
            IF speed.ok THEN Node(MotorStatement(name, Clamp(speed.value))) ELSE Nullptr
    IN  IF Len(parts) < 3 THEN Nullptr
        ELSE IF parts[2] = "SPEED" THEN made("default", Stoi(parts[3]))
        ELSE IF Len(parts) >= 4 /\ parts[3] = "SPEED" THEN made(parts[2], Stoi(parts[4]))
        ELSE made("default", Stoi(parts[2]))

\* A parseRepeat that opens its body without moving past the header line.
LineRepeatStuck ==
    /\ AtLine
    /\ StartsWith(Line, "REPEAT")
    /\ LET parts == split(Line, " ")
       IN  IF Len(parts) >= 3 /\ Stoi(parts[2]).ok
           THEN stack' = Append(stack, Frame("Repeat", NoCondition, Stoi(parts[2]).value, ""))
           ELSE UNCHANGED stack
    /\ UNCHANGED <<tokens, pos, statements, declaredFunctions, calledFunctions, outcome,
                   ast, previous, genVars, frontEnd, source, lines, index, matches,
                   accepted>>

\* parseRepeat: the header line.  With fewer than three parts or a count that
\* is no number it returns nullptr, the line consumed and nothing opened.
LineRepeat ==
    /\ AtLine
    /\ StartsWith(Line, "REPEAT")
    /\ index' = index + 1
    /\ LET parts == split(Line, " ")
       IN  IF Len(parts) >= 3 /\ Stoi(parts[2]).ok
           THEN stack' = Append(stack, Frame("Repeat", NoCondition, Stoi(parts[2]).value, ""))
           ELSE UNCHANGED stack
    /\ UNCHANGED <<tokens, pos, statements, declaredFunctions, calledFunctions, outcome,
                   ast, previous, genVars, frontEnd, source, lines, matches, accepted>>

LineWait ==
    /\ AtLine
    /\ ~StartsWith(Line, "REPEAT") /\ StartsWith(Line, "WAIT")
    /\ LineDone(LineWaitRule(Line))

LineLED ==
    /\ AtLine
    /\ ~StartsWith(Line, "REPEAT") /\ ~StartsWith(Line, "WAIT") /\ StartsWith(Line, "LED")
    /\ LineDone(LineLEDRule(Line))

LineMotor ==
    /\ AtLine
    /\ ~StartsWith(Line, "REPEAT") /\ ~StartsWith(Line, "WAIT") /\ ~StartsWith(Line, "LED")
    /\ StartsWith(Line, "MOTOR")
    /\ LineDone(LineMotorRule(Line))

LineStop ==
    /\ AtLine
    /\ Line = "STOP"
    /\ LineDone(Node(StopStatement))

\* The final else of parseStatements moving the index by two.
LineSkipTwo ==
    /\ AtLine
    /\ ~StartsWith(Line, "REPEAT") /\ ~StartsWith(Line, "WAIT") /\ ~StartsWith(Line, "LED")
    /\ ~StartsWith(Line, "MOTOR") /\ Line # "STOP"
    /\ index' = index + 2
    /\ UNCHANGED <<stack, statements, tokens, pos, declaredFunctions, calledFunctions,
                   outcome, ast, previous, genVars, frontEnd, source, lines, matches,
                   accepted>>

\* The final else of parseStatements: the line is skipped.
LineSkip ==
    /\ AtLine
    /\ ~StartsWith(Line, "REPEAT") /\ ~StartsWith(Line, "WAIT") /\ ~StartsWith(Line, "LED")
    /\ ~StartsWith(Line, "MOTOR") /\ Line # "STOP"
    /\ LineDone(Nullptr)

\* parseRepeat after parseStatements: the END line skipped if it is there,
\* the Repeat node returned to the caller's list.
LineRepeatEnd ==
    /\ AtLinesEnd
    /\ stack # << >>
    /\ index' = IF index < Len(lines) /\ Line = "END" THEN index + 1 ELSE index
    /\ LET outer == SubSeq(stack, 1, Len(stack) - 1)
       IN  IF outer = << >>
           THEN /\ statements' = Append(statements, FrameNode(Top))
                /\ stack' = outer
           ELSE /\ stack' = [outer EXCEPT ![Len(outer)].body = Append(@, FrameNode(Top))]
                /\ UNCHANGED statements
    /\ UNCHANGED <<tokens, pos, declaredFunctions, calledFunctions, outcome, ast,
                   previous, genVars, frontEnd, source, lines, matches, accepted>>

\* PeglibParser::semanticAnalysis (both variants): the exceptions it may throw
PeglibSemanticAnalysis(declared, called) ==
    {SemanticException("Function '" \o f \o "' called but not defined",
                       "Available: " \o
                           (IF declared = {} THEN "none" ELSE JoinNames(order)))
        : f \in called \ declared, order \in IterationOrders(declared)}

\* PeglibParser::parse after parseStatements: semanticAnalysis, the return
LinesReturn ==
    /\ AtLinesEnd
    /\ stack = << >>
    /\ LET errors == PeglibSemanticAnalysis(declaredFunctions, calledFunctions)
       IN  IF errors = {}
           THEN outcome' = Returned /\ ast' = Program(statements)
           ELSE outcome' \in errors /\ UNCHANGED ast
    /\ UNCHANGED <<tokens, pos, stack, statements, declaredFunctions, calledFunctions,
                   previous, genVars, frontVars>>

LinesStep ==
    \/ SplitLines
    \/ LineRepeat \/ LineWait \/ LineLED \/ LineMotor \/ LineStop \/ LineSkip
    \/ LineRepeatEnd
    \/ LinesReturn

(***************************************************************************)
(* The PEG-grammar PeglibParser (src/peglib_parser.cpp).  The grammar is   *)
(* run by the peglib library; what the model keeps of it is the sequence   *)
(* of semantic actions it fires, in order, each with the text its rule     *)
(* matched, and whether the source as a whole is accepted.  Reading a      *)
(* semantic value with get<T>() either yields the matched text or throws   *)
(* std::bad_any_cast.                                                      *)
(***************************************************************************)
Match(rule, first, second) == [rule |-> rule, first |-> first, second |-> second]

BadAnyCast == [kind |-> "std::bad_any_cast"]

\* std::invalid_argument or std::out_of_range leaving std::stoi uncaught
StoiError == [kind |-> "std::logic_error", message |-> "stoi"]

\* PeglibParser::PeglibParser(sourceCode), the grammar's matches given
NewPegParser(ms, ok) ==
    /\ frontEnd = "peg"
    /\ source = ""
    /\ lines = << >>
    /\ index = 0
    /\ matches = ms
    /\ accepted = ok
    /\ tokens = << >>
    /\ pos = 0
    /\ stack = << >>
    /\ statements = << >>
    /\ declaredFunctions = {}
    /\ calledFunctions = {}
    /\ outcome = Running
    /\ ast = NoProgram

PegAt(rule) ==
    /\ frontEnd = "peg"
    /\ outcome = Running
    /\ matches # << >>
    /\ Head(matches).rule = rule

\* program->statements.push_back(node) at the end of a semantic action
PegPush(node) ==
    /\ statements' = Append(statements, node)
    /\ matches' = Tail(matches)
    /\ UNCHANGED <<tokens, pos, stack, outcome, ast, previous, genVars,
                   frontEnd, source, lines, index, accepted>>

\* An exception leaves the semantic action and PeglibParser::parse.
PegThrow(e) ==
    /\ outcome' = e
    /\ UNCHANGED <<tokens, pos, stack, statements, declaredFunctions, calledFunctions,
                   ast, previous, genVars, frontVars>>

PegRobot ==
    /\ PegAt("Robot")
    /\ PegPush(RobotDeclaration(Head(matches).first))
    /\ UNCHANGED <<declaredFunctions, calledFunctions>>

PegMove ==
    /\ PegAt("Move")
    /\ \/ PegThrow(BadAnyCast)
       \/ LET distance == Stoi(Head(matches).second)
          IN  IF ~distance.ok THEN PegThrow(StoiError)
              ELSE IF distance.value < 0
              THEN PegThrow(SemanticException("Distance must be positive",
                                              "Found: " \o to_string(distance.value)))
              ELSE /\ PegPush(MoveStatement(Head(matches).first, distance.value))
                   /\ UNCHANGED <<declaredFunctions, calledFunctions>>

PegTurn ==
    /\ PegAt("Turn")
    /\ \/ PegThrow(BadAnyCast)
       \/ LET angle == Stoi(Head(matches).second)
          IN  IF ~angle.ok THEN PegThrow(StoiError)
              ELSE /\ PegPush(TurnStatement(Head(matches).first, angle.value))
                   /\ UNCHANGED <<declaredFunctions, calledFunctions>>

PegStop ==
    /\ PegAt("Stop")
    /\ PegPush(StopStatement)
    /\ UNCHANGED <<declaredFunctions, calledFunctions>>

PegLED ==
    /\ PegAt("LED")
    /\ \/ PegThrow(BadAnyCast)
       \/ /\ PegPush(LEDStatement(Head(matches).first, Head(matches).second))
          /\ UNCHANGED <<declaredFunctions, calledFunctions>>

PegServo ==
    /\ PegAt("Servo")
    /\ \/ PegThrow(BadAnyCast)
       \/ LET angle == Stoi(Head(matches).second)
          IN  IF ~angle.ok THEN PegThrow(StoiError)
              ELSE /\ PegPush(ServoStatement(Head(matches).first, angle.value))
                   /\ UNCHANGED <<declaredFunctions, calledFunctions>>

\* The range test of the Motor action
SpeedInRange(speed) == ~(speed < 0 \/ speed > 100)

PegMotor ==
    /\ PegAt("Motor")
    /\ \/ PegThrow(BadAnyCast)
       \/ LET speed == Stoi(Head(matches).second)
          IN  IF ~speed.ok THEN PegThrow(StoiError)
              ELSE IF ~SpeedInRange(speed.value)
              THEN PegThrow(SemanticException("Speed must be 0-100",
                                              "Found: " \o to_string(speed.value)))
              ELSE /\ PegPush(MotorStatement(Head(matches).first, speed.value))
                   /\ UNCHANGED <<declaredFunctions, calledFunctions>>

PegWait ==
    /\ PegAt("Wait")
    /\ \/ PegThrow(BadAnyCast)
       \/ LET duration == Stoi(Head(matches).first)
          IN  IF ~duration.ok THEN PegThrow(StoiError)
              ELSE /\ PegPush(WaitStatement(duration.value))
                   /\ UNCHANGED <<declaredFunctions, calledFunctions>>

\* The Func action: the body the grammar matched is not attached.
PegFunc ==
    /\ PegAt("Func")
    /\ declaredFunctions' = declaredFunctions \cup {Head(matches).first}
    /\ PegPush(FunctionDef(Head(matches).first, << >>))
    /\ UNCHANGED calledFunctions

PegCall ==
    /\ PegAt("Call")
    /\ calledFunctions' = calledFunctions \cup {Head(matches).first}
    /\ PegPush(CallStatement(Head(matches).first))
    /\ UNCHANGED declaredFunctions

PegSend ==
    /\ PegAt("Send")
    /\ PegPush(SendStatement(Head(matches).first))
    /\ UNCHANGED <<declaredFunctions, calledFunctions>>

\* PeglibParser::parse after parser.parse(source): the failure, or
\* semanticAnalysis and the return.
PegReturn ==
    /\ frontEnd = "peg"
    /\ outcome = Running
    /\ matches = << >>
    /\ IF ~accepted
       THEN outcome' = ParserException("Failed to parse RoboScript", "token", source)
            /\ UNCHANGED ast
       ELSE LET errors == PeglibSemanticAnalysis(declaredFunctions, calledFunctions)
            IN  IF errors = {}
                THEN outcome' = Returned /\ ast' = Program(statements)
                ELSE outcome' \in errors /\ UNCHANGED ast
    /\ UNCHANGED <<tokens, pos, stack, statements, declaredFunctions, calledFunctions,
                   previous, genVars, frontVars>>

PegStep ==
    \/ PegRobot \/ PegMove \/ PegTurn \/ PegStop \/ PegLED \/ PegServo \/ PegMotor
    \/ PegWait \/ PegFunc \/ PegCall \/ PegSend
    \/ PegReturn

(***************************************************************************)
(* ArduinoGenerator: text helpers and the constants of the header.         *)
(***************************************************************************)
LED_PIN == 13
MOTOR_LEFT_FORWARD == 5
MOTOR_LEFT_BACKWARD == 6
MOTOR_RIGHT_FORWARD == 10
MOTOR_RIGHT_BACKWARD == 11
DISTANCE_SENSOR_PIN == 14
LIGHT_SENSOR_PIN == 15

RECURSIVE Spaces(_)
Spaces(n) == IF n <= 0 THEN "" ELSE " " \o Spaces(n - 1)

\* ArduinoGenerator::indent at indentation level lvl
indent(lvl) == Spaces(lvl * 2)

\* std::string::find(pat) != npos
Contains(s, pat) ==
    \E i \in 1..(Len(s) - Len(pat) + 1) : SubSeq(s, i, i + Len(pat) - 1) = pat

digitalWrite(pin, level) == "digitalWrite(" \o to_string(pin) \o ", " \o level \o ");"

\* The lines each leaf rule hands to addLine, in order.
generateRobotDeclaration(stmt) ==
    << "// Robot: " \o stmt.name,
       "// Initializing robot systems..." >>

\* delayTime is what distance * 10 came to
generateMove(stmt, delayTime) ==
    IF stmt.direction = "forward"
    THEN << "// Move forward: " \o to_string(stmt.distance) \o " units",
            digitalWrite(MOTOR_LEFT_FORWARD, "HIGH"),
            digitalWrite(MOTOR_RIGHT_FORWARD, "HIGH"),
            digitalWrite(MOTOR_LEFT_BACKWARD, "LOW"),
            digitalWrite(MOTOR_RIGHT_BACKWARD, "LOW"),
            "delay(" \o to_string(delayTime) \o ");" >>
    ELSE IF stmt.direction = "backward"
    THEN << "// Move backward: " \o to_string(stmt.distance) \o " units",
            digitalWrite(MOTOR_LEFT_FORWARD, "LOW"),
            digitalWrite(MOTOR_RIGHT_FORWARD, "LOW"),
            digitalWrite(MOTOR_LEFT_BACKWARD, "HIGH"),
            digitalWrite(MOTOR_RIGHT_BACKWARD, "HIGH"),
            "delay(" \o to_string(delayTime) \o ");" >>
    ELSE << >>

\* delayTime is what angle * 5 came to
generateTurn(stmt, delayTime) ==
    (IF stmt.direction = "left"
     THEN << "// Turn left: " \o to_string(stmt.angle) \o " degrees",
             digitalWrite(MOTOR_LEFT_FORWARD, "LOW"),
             digitalWrite(MOTOR_RIGHT_FORWARD, "HIGH"),
             digitalWrite(MOTOR_LEFT_BACKWARD, "HIGH"),
             digitalWrite(MOTOR_RIGHT_BACKWARD, "LOW") >>
     ELSE IF stmt.direction = "right"
     THEN << "// Turn right: " \o to_string(stmt.angle) \o " degrees",
             digitalWrite(MOTOR_LEFT_FORWARD, "HIGH"),
             digitalWrite(MOTOR_RIGHT_FORWARD, "LOW"),
             digitalWrite(MOTOR_LEFT_BACKWARD, "LOW"),
             digitalWrite(MOTOR_RIGHT_BACKWARD, "HIGH") >>
     ELSE << >>)
    \o << "delay(" \o to_string(delayTime) \o ");" >>

generateStop(stmt) ==
    << "// Stop all motors",
       digitalWrite(MOTOR_LEFT_FORWARD, "LOW"),
       digitalWrite(MOTOR_LEFT_BACKWARD, "LOW"),
       digitalWrite(MOTOR_RIGHT_FORWARD, "LOW"),
       digitalWrite(MOTOR_RIGHT_BACKWARD, "LOW") >>

analogRead(pin) == "analogRead(" \o to_string(pin) \o ")"

\* A substitution that takes only the operand that is the sensor reference.
SensorOperandExact(operand) ==
    IF operand = "sensor.distance" THEN analogRead(DISTANCE_SENSOR_PIN)
    ELSE IF operand = "sensor.light" THEN analogRead(LIGHT_SENSOR_PIN)
    ELSE operand

\* The operand of a condition after the sensor substitution.
SensorOperand(operand) ==
    IF Contains(operand, "sensor.distance") THEN analogRead(DISTANCE_SENSOR_PIN)
    ELSE IF Contains(operand, "sensor.light") THEN analogRead(LIGHT_SENSOR_PIN)
    ELSE operand

generateCondition(condition) ==
    "(" \o SensorOperand(condition.left) \o " " \o condition.op \o " "
        \o SensorOperand(condition.right) \o ")"

generateLED(stmt) ==
    IF stmt.state = "on"
    THEN << "// LED on" >>
         \o (IF stmt.color # "" THEN << "// Color: " \o stmt.color >> ELSE << >>)
         \o << digitalWrite(LED_PIN, "HIGH") >>
    ELSE IF stmt.state = "off"
    THEN << "// LED off", digitalWrite(LED_PIN, "LOW") >>
    ELSE << >>

generateServo(stmt) ==
    << "// Servo " \o stmt.name \o " to angle " \o to_string(stmt.angle),
       "servo.write(" \o to_string(stmt.angle) \o ");",
       "delay(100);" >>

\* The percentage scaled by 256 instead of 255
pwmValueOver(speed) == (speed * 256) \div 100

\* int pwmValue = (speed * 255) / 100: C++ division truncates toward zero.
pwmValue(speed) ==
    IF speed >= 0 THEN (speed * 255) \div 100 ELSE 0 - ((0 - speed * 255) \div 100)

generateMotor(stmt) ==
    << "// Motor " \o stmt.name \o " speed: " \o to_string(stmt.speed) \o "%" >>
    \o (IF stmt.name = "left"
        THEN << "analogWrite(" \o to_string(MOTOR_LEFT_FORWARD) \o ", "
                    \o to_string(pwmValue(stmt.speed)) \o ");" >>
        ELSE IF stmt.name = "right"
        THEN << "analogWrite(" \o to_string(MOTOR_RIGHT_FORWARD) \o ", "
                    \o to_string(pwmValue(stmt.speed)) \o ");" >>
        ELSE << >>)

generateWait(stmt) ==
    << "delay(" \o to_string(stmt.duration) \o ");  // Wait "
           \o to_string(stmt.duration) \o "ms" >>

generateCall(stmt) == << stmt.name \o "();  // Call function" >>

generateSend(stmt) == << "Serial.println(\"" \o stmt.message \o "\");" >>

(***************************************************************************)
(* ArduinoGenerator: the walk.  The recursion of generateStatement is kept *)
(* as an explicit list of the steps still to run (work); every             *)
(* generateX handler is one action.                                        *)
(***************************************************************************)
\* A fresh ArduinoGenerator (constructor: indentLevel(0), empty buffers).
NewGenerator ==
    /\ genState = "idle"
    /\ work = << >>
    /\ indentLevel = 0
    /\ generatedCode = << >>
    /\ setupCode = << >>
    /\ variableDeclarations = << >>
    /\ calls = << >>
    /\ sketch = ""

\* ArduinoGenerator::addLine for each code line of lines, in order
addLine(buffer, lvl, codes) ==
    buffer \o [i \in 1..Len(codes) |-> indent(lvl) \o codes[i]]

\* ArduinoGenerator::generateBlock: one generateStatement per statement
generateBlock(stmts) ==
    [i \in 1..Len(stmts) |-> [op |-> "statement", stmt |-> stmts[i]]]

\* ArduinoGenerator::generateStatement chooses the handler of this node type
generateStatement(type) ==
    /\ genState = "walking"
    /\ work # << >>
    /\ Head(work).op = "statement"
    /\ Head(work).stmt.type = type

WorkStep(op) ==
    /\ genState = "walking"
    /\ work # << >>
    /\ Head(work).op = op

\* A generate() that starts from the buffers the call before it left.
GenerateWithoutClear ==
    /\ outcome = Returned
    /\ genState = "idle"
    /\ genState' = "walking"
    /\ setupCode' = addLine(setupCode, 0,
          << "// Initialize pins",
             "pinMode(" \o to_string(LED_PIN) \o ", OUTPUT);",
             "pinMode(" \o to_string(MOTOR_LEFT_FORWARD) \o ", OUTPUT);",
             "pinMode(" \o to_string(MOTOR_LEFT_BACKWARD) \o ", OUTPUT);",
             "pinMode(" \o to_string(MOTOR_RIGHT_FORWARD) \o ", OUTPUT);",
             "pinMode(" \o to_string(MOTOR_RIGHT_BACKWARD) \o ", OUTPUT);",
             "Serial.begin(9600);",
             "Serial.println(\"Robot initialized\");" >>)
    /\ work' = generateBlock(ast.statements)
    /\ UNCHANGED <<generatedCode, variableDeclarations, indentLevel, calls, sketch,
                   parserVars, frontVars>>

\* The first part of generate(): clear the buffers, emit the setup lines.
Generate ==
    /\ outcome = Returned
    /\ genState = "idle"
    /\ genState' = "walking"
    /\ generatedCode' = << >>
    /\ variableDeclarations' = << >>
    /\ indentLevel' = 0
    /\ setupCode' = addLine(<< >>, 0,
          << "// Initialize pins",
             "pinMode(" \o to_string(LED_PIN) \o ", OUTPUT);",
             "pinMode(" \o to_string(MOTOR_LEFT_FORWARD) \o ", OUTPUT);",
             "pinMode(" \o to_string(MOTOR_LEFT_BACKWARD) \o ", OUTPUT);",
             "pinMode(" \o to_string(MOTOR_RIGHT_FORWARD) \o ", OUTPUT);",
             "pinMode(" \o to_string(MOTOR_RIGHT_BACKWARD) \o ", OUTPUT);",
             "Serial.begin(9600);",
             "Serial.println(\"Robot initialized\");" >>)
    /\ work' = generateBlock(ast.statements)
    /\ UNCHANGED <<calls, sketch, parserVars, frontVars>>

\* A leaf handler: its lines go to the control buffer at the current indent.
GenerateLeaf(codes) ==
    /\ generatedCode' = addLine(generatedCode, indentLevel, codes)
    /\ work' = Tail(work)
    /\ UNCHANGED <<genState, indentLevel, setupCode, variableDeclarations, calls,
                   sketch, parserVars, frontVars>>

\* The process stopped by a trap on signed overflow: generate never returns
Trap ==
    /\ genState' = "aborted"
    /\ UNCHANGED <<work, indentLevel, generatedCode, setupCode, variableDeclarations,
                   calls, sketch, parserVars, frontVars>>

\* A leaf handler that computes a delay first
GenerateDelay(delayTime, codes) ==
    IF delayTime.trap THEN Trap ELSE GenerateLeaf(codes)

GenerateRobotDeclaration == generateStatement("RobotDeclaration") /\ GenerateLeaf(generateRobotDeclaration(Head(work).stmt))
GenerateMove ==
    /\ generateStatement("Move")
    /\ \E delayTime \in SignedMul(Head(work).stmt.distance, 10) :
           GenerateDelay(delayTime, generateMove(Head(work).stmt, delayTime.value))

GenerateTurn ==
    /\ generateStatement("Turn")
    /\ \E delayTime \in SignedMul(Head(work).stmt.angle, 5) :
           GenerateDelay(delayTime, generateTurn(Head(work).stmt, delayTime.value))

GenerateStop == generateStatement("Stop") /\ GenerateLeaf(generateStop(Head(work).stmt))
GenerateLED == generateStatement("LED") /\ GenerateLeaf(generateLED(Head(work).stmt))
GenerateServo == generateStatement("Servo") /\ GenerateLeaf(generateServo(Head(work).stmt))
GenerateMotor == generateStatement("Motor") /\ GenerateLeaf(generateMotor(Head(work).stmt))
GenerateWait == generateStatement("Wait") /\ GenerateLeaf(generateWait(Head(work).stmt))
GenerateCall == generateStatement("Call") /\ GenerateLeaf(generateCall(Head(work).stmt))
GenerateSend == generateStatement("Send") /\ GenerateLeaf(generateSend(Head(work).stmt))

\* What is left of a block handler, decreaseIndent() left out
BlockRestUnbalanced(body) ==
    generateBlock(body) \o << [op |-> "addLine", code |-> "}"] >>

\* What is left of a block handler after its header line and increaseIndent()
BlockRest(body) ==
    generateBlock(body) \o << [op |-> "decreaseIndent"], [op |-> "addLine", code |-> "}"] >>

\* generateIf, generateWhile and generateRepeat up to the body
GenerateHeader(header, rest) ==
    /\ generatedCode' = addLine(generatedCode, indentLevel, << header >>)
    /\ indentLevel' = indentLevel + 1
    /\ work' = rest \o Tail(work)
    /\ UNCHANGED <<genState, setupCode, variableDeclarations, calls, sketch, parserVars, frontVars>>

IfHeaderLine(stmt) == "if " \o generateCondition(stmt.condition) \o " {"

IfRest(stmt) ==
    generateBlock(stmt.thenBody)
    \o << [op |-> "decreaseIndent"] >>
    \o (IF stmt.elseBody # << >>
        THEN << [op |-> "addLine", code |-> "} else {"], [op |-> "increaseIndent"] >>
             \o generateBlock(stmt.elseBody)
             \o << [op |-> "decreaseIndent"] >>
        ELSE << >>)
    \o << [op |-> "addLine", code |-> "}"] >>

GenerateIf == generateStatement("If") /\ GenerateHeader(IfHeaderLine(Head(work).stmt), IfRest(Head(work).stmt))

WhileHeaderLine(stmt) == "while " \o generateCondition(stmt.condition) \o " {"

WhileRest(stmt) == BlockRest(stmt.body)

GenerateWhile == generateStatement("While") /\ GenerateHeader(WhileHeaderLine(Head(work).stmt), WhileRest(Head(work).stmt))

RepeatHeaderLine(stmt) == "for (int i = 0; i < " \o to_string(stmt.times) \o "; i++) {"

RepeatRest(stmt) == BlockRest(stmt.body)

GenerateRepeat == generateStatement("Repeat") /\ GenerateHeader(RepeatHeaderLine(Head(work).stmt), RepeatRest(Head(work).stmt))

\* addLine(code) inside a block handler
AddLine ==
    /\ WorkStep("addLine")
    /\ generatedCode' = addLine(generatedCode, indentLevel, << Head(work).code >>)
    /\ work' = Tail(work)
    /\ UNCHANGED <<genState, indentLevel, setupCode, variableDeclarations, calls,
                   sketch, parserVars, frontVars>>

increaseIndent ==
    /\ WorkStep("increaseIndent")
    /\ indentLevel' = indentLevel + 1
    /\ work' = Tail(work)
    /\ UNCHANGED <<genState, generatedCode, setupCode, variableDeclarations, calls,
                   sketch, parserVars, frontVars>>

decreaseIndent ==
    /\ WorkStep("decreaseIndent")
    /\ indentLevel' = indentLevel - 1
    /\ work' = Tail(work)
    /\ UNCHANGED <<genState, generatedCode, setupCode, variableDeclarations, calls,
                   sketch, parserVars, frontVars>>

\* The steps of generateFunction's loop for one body statement
FunctionBodyStep(s) ==
    << [op |-> "savedSize"], [op |-> "statement", stmt |-> s], [op |-> "extract"] >>

RECURSIVE FunctionBody(_)
FunctionBody(body) ==
    IF body = << >> THEN << >> ELSE FunctionBodyStep(Head(body)) \o FunctionBody(Tail(body))

\* generateFunction up to its loop: header pushed, indentLevel forced to 1
GenerateFunction ==
    /\ generateStatement("Function")
    /\ variableDeclarations' =
           Append(variableDeclarations, "void " \o Head(work).stmt.name \o "() {")
    /\ calls' = << [funcCode |-> "", savedIndent |-> indentLevel, savedSize |-> 0] >> \o calls
    /\ indentLevel' = 1
    /\ work' = FunctionBody(Head(work).stmt.body) \o << [op |-> "endFunction"] >> \o Tail(work)
    /\ UNCHANGED <<genState, generatedCode, setupCode, sketch, parserVars, frontVars>>

\* int savedSize = generatedCode.size();
SaveSize ==
    /\ WorkStep("savedSize")
    /\ calls' = [calls EXCEPT ![1].savedSize = Len(generatedCode)]
    /\ work' = Tail(work)
    /\ UNCHANGED <<genState, indentLevel, generatedCode, setupCode, variableDeclarations,
                   sketch, parserVars, frontVars>>

\* while (generatedCode.size() > savedSize) { funcCode += back() + "\n"; pop_back(); }
RECURSIVE PopBack(_, _, _)
PopBack(buffer, savedSize, funcCode) ==
    IF Len(buffer) > savedSize
    THEN PopBack(SubSeq(buffer, 1, Len(buffer) - 1), savedSize,
                 funcCode \o buffer[Len(buffer)] \o "\n")
    ELSE [generatedCode |-> buffer, funcCode |-> funcCode]

ExtractFunctionCode ==
    /\ WorkStep("extract")
    /\ LET r == PopBack(generatedCode, calls[1].savedSize, calls[1].funcCode)
       IN  /\ generatedCode' = r.generatedCode
           /\ calls' = [calls EXCEPT ![1].funcCode = r.funcCode]
    /\ work' = Tail(work)
    /\ UNCHANGED <<genState, indentLevel, setupCode, variableDeclarations, sketch, parserVars, frontVars>>

\* generateFunction after its loop, indentLevel left at 1
EndFunctionKeepsIndent ==
    /\ WorkStep("endFunction")
    /\ indentLevel' = indentLevel
    /\ variableDeclarations' = variableDeclarations \o << calls[1].funcCode, "}", "" >>
    /\ calls' = Tail(calls)
    /\ work' = Tail(work)
    /\ UNCHANGED <<genState, generatedCode, setupCode, sketch, parserVars, frontVars>>

\* generateFunction after its loop
EndFunction ==
    /\ WorkStep("endFunction")
    /\ indentLevel' = calls[1].savedIndent
    /\ variableDeclarations' = variableDeclarations \o << calls[1].funcCode, "}", "" >>
    /\ calls' = Tail(calls)
    /\ work' = Tail(work)
    /\ UNCHANGED <<genState, generatedCode, setupCode, sketch, parserVars, frontVars>>

\* Each entry of a buffer followed by a newline, as the result stream gets it
RECURSIVE JoinLines(_)
JoinLines(entries) ==
    IF entries = << >> THEN "" ELSE Head(entries) \o "\n" \o JoinLines(Tail(entries))

defineLine(name, pin) == "#define " \o name \o " " \o to_string(pin) \o "\n"

\* The last part of generate(): the document assembled from the three buffers
Result(declarations, setup, loop) ==
    "#include <Servo.h>\n\n"
    \o "// Pin Definitions\n"
    \o defineLine("LED_PIN", LED_PIN)
    \o defineLine("MOTOR_LEFT_FORWARD", MOTOR_LEFT_FORWARD)
    \o defineLine("MOTOR_LEFT_BACKWARD", MOTOR_LEFT_BACKWARD)
    \o defineLine("MOTOR_RIGHT_FORWARD", MOTOR_RIGHT_FORWARD)
    \o defineLine("MOTOR_RIGHT_BACKWARD", MOTOR_RIGHT_BACKWARD)
    \o defineLine("DISTANCE_SENSOR_PIN", DISTANCE_SENSOR_PIN)
    \o defineLine("LIGHT_SENSOR_PIN", LIGHT_SENSOR_PIN) \o "\n"
    \o "// Global Variables\n"
    \o "Servo servo;\n\n"
    \o JoinLines(declarations)
    \o "void setup() {\n" \o JoinLines(setup) \o "}\n\n"
    \o "void loop() {\n"
    \o (IF loop # << >> THEN JoinLines(loop) ELSE "  // Your robot code here\n")
    \o "}\n"

GenerateReturn ==
    /\ genState = "walking"
    /\ work = << >>
    /\ sketch' = Result(variableDeclarations, setupCode, generatedCode)
    /\ genState' = "done"
    /\ UNCHANGED <<work, indentLevel, generatedCode, setupCode, variableDeclarations,
                   calls, parserVars, frontVars>>

GeneratorStep ==
    \/ Generate
    \/ GenerateRobotDeclaration \/ GenerateMove \/ GenerateTurn \/ GenerateStop
    \/ GenerateLED \/ GenerateServo \/ GenerateMotor \/ GenerateWait
    \/ GenerateCall \/ GenerateSend
    \/ GenerateIf \/ GenerateWhile \/ GenerateRepeat
    \/ AddLine \/ increaseIndent \/ decreaseIndent
    \/ GenerateFunction \/ SaveSize \/ ExtractFunctionCode \/ EndFunction
    \/ GenerateReturn


(***************************************************************************)
(* Inputs of the token-based parser: what Lexer::tokenize hands over, a    *)
(* token sequence closed by one END_OF_FILE token.  A sequence is made of  *)
(* at most MaxChunks chunks: any number of them from the core family, and  *)
(* at most one from the wider family.                                      *)
(***************************************************************************)
RECURSIVE Flatten(_)
Flatten(chunks) ==
    IF chunks = <<>> THEN <<>> ELSE Head(chunks) \o Flatten(Tail(chunks))

ChunkSeqs(S, n) == UNION {[1..k -> S] : k \in 0..n}

InsertAt(cs, i, x) == SubSeq(cs, 1, i) \o <<x>> \o SubSeq(cs, i + 1, Len(cs))

ChunkInputs(core, extra, n) ==
    ChunkSeqs(core, n)
    \cup UNION { {InsertAt(cs, i, x) : i \in 0..Len(cs), x \in extra}
                 : cs \in ChunkSeqs(core, n - 1) }

TokenStreams(core, extra, n) ==
    {Flatten(cs) \o <<EofToken>> : cs \in ChunkInputs(core, extra, n)}

CoreChunks ==
    { <<KW("STOP")>>,
      <<KW("MOVE"), KW("forward"), NUM("50")>>,
      <<KW("CALL"), ID("f")>>,
      <<KW("FUNCTION"), ID("f")>>,
      <<KW("IF"), ID("sensor.distance"), OP("<"), NUM("30"), KW("THEN")>>,
      <<KW("ELSE")>>,
      <<KW("END")>>,
      <<KW("REPEAT"), NUM("0"), KW("TIMES")>> }

ExtraChunks ==
    { <<KW("ROBOT"), ID("bot1")>>,
      <<KW("CALL"), ID("g")>>,
      <<KW("MOVE"), ID("up"), NUM("5")>>,
      <<KW("TURN"), KW("right"), NUM("90")>>,
      <<KW("LED"), KW("on")>>,
      <<KW("SERVO"), ID("arm"), KW("TO"), NUM("90")>>,
      <<KW("MOTOR"), KW("left"), KW("SPEED"), NUM("75")>>,
      <<KW("MOTOR"), KW("left"), KW("SPEED"), NUM("150")>>,
      <<KW("WAIT"), NUM("500")>>,
      <<KW("WAIT"), NUM("99999999999")>>,
      <<KW("SEND"), KW("message"), STR("hi")>>,
      <<KW("WHILE"), ID("sensor.light"), OP(">"), NUM("50"), KW("DO")>>,
      <<KW("REPEAT"), NUM("3"), KW("TIMES"), KW("STOP"), KW("END")>>,
      <<KW("ELSE"), KW("STOP")>>,
      <<ID("jump")>>,
      <<KW("MOVE")>> }

\* Parser::Parser(toks)
NewParser(toks) ==
    /\ frontEnd = "Parser"
    /\ tokens = toks
    /\ pos = 0
    /\ stack = <<>>
    /\ statements = <<>>
    /\ declaredFunctions = {}
    /\ calledFunctions = {}
    /\ outcome = Running
    /\ ast = NoProgram

ParserStep ==
    \/ DispatchRobot \/ DispatchMove \/ DispatchTurn \/ DispatchStop \/ DispatchLED
    \/ DispatchServo \/ DispatchMotor \/ DispatchWait \/ DispatchSend \/ DispatchCall
    \/ DispatchUnknown
    \/ IfHeader \/ WhileHeader \/ RepeatHeader \/ FunctionHeader
    \/ IfElse \/ IfEnd \/ WhileEnd \/ RepeatEnd \/ FunctionEnd
    \/ ParseReturn

\* A run without a PeglibParser
NoPeglibParser ==
    /\ source = ""
    /\ lines = << >>
    /\ index = 0
    /\ matches = << >>
    /\ accepted = FALSE

(***************************************************************************)
(* The compiler run of main(): tokens, Parser::parse, then                 *)
(* ArduinoGenerator::generate on the Program parse returned.               *)
(***************************************************************************)
Init ==
    \E toks \in TokenStreams(CoreChunks, ExtraChunks, MaxChunks) :
        /\ NewParser(toks)
        /\ previous = <<>>
        /\ NewGenerator
        /\ NoPeglibParser

Next == ParserStep \/ GeneratorStep

Spec == Init /\ [][Next]_vars

(***************************************************************************)
(* The three parsers side by side: a run is one parse() of a token Parser, *)
(* of a line-based PeglibParser or of a PEG-grammar PeglibParser.          *)
(***************************************************************************)
RECURSIVE JoinSource(_)
JoinSource(ls) ==
    IF ls = << >> THEN ""
    ELSE IF Len(ls) = 1 THEN ls[1]
    ELSE ls[1] \o "\n" \o JoinSource(Tail(ls))

CoreLines ==
    { "MOTOR left SPEED 150", "WAIT -5", "REPEAT 2 TIMES", "END", "STOP" }

ExtraLines ==
    { "MOTOR SPEED 75", "MOTOR 250 rpm", "MOTOR -5 rpm", "MOTOR left SPEED fast",
      "MOTOR left", "MOTOR right SPEED 99999999999",
      "WAIT 500", "WAIT", "WAIT soon",
      "LED on RED", "LED", "LED blink",
      "REPEAT -2 TIMES", "REPEAT", "REPEAT x TIMES",
      "  STOP  ", "# note", "", "MOVE forward -50" }

Sources == {JoinSource(ls) : ls \in ChunkInputs(CoreLines, ExtraLines, MaxLines)}

PegMatches ==
    { Match("Robot", "bot1", ""), Match("Move", "forward", "50"),
      Match("Turn", "right", "90"), Match("Stop", "", ""), Match("LED", "on", ""),
      Match("Servo", "arm", "90"), Match("Motor", "left", "75"),
      Match("Motor", "left", "150"), Match("Motor", "right", "100"),
      Match("Wait", "500", ""), Match("Wait", "99999999999", ""),
      Match("Func", "f", ""), Match("Call", "f", ""), Match("Call", "g", ""),
      Match("Send", "hi", "") }

InitFrontEnds ==
    /\ previous = <<>>
    /\ NewGenerator
    /\ \/ \E toks \in TokenStreams(CoreChunks, ExtraChunks, MaxChunks) :
             NewParser(toks) /\ NoPeglibParser
       \/ \E src \in Sources : NewPeglibParser(src)
       \/ \E ms \in ChunkSeqs(PegMatches, MaxMatches), ok \in BOOLEAN : NewPegParser(ms, ok)

NextFrontEnds == ParserStep \/ LinesStep \/ PegStep

SpecFrontEnds == InitFrontEnds /\ [][NextFrontEnds]_vars

(***************************************************************************)
(* The generator alone: generate() called on a Program that was built      *)
(* directly.  A Program has at most MaxStatements top-level statements:    *)
(* any number of them from the core family, at most one from the wider.    *)
(***************************************************************************)
Operands == {"sensor.distance", "sensor.light", "30", "x", "sensor.distance2", "my_sensor.light"}

Conditions == {Condition(l, o, r) : l \in Operands, o \in {"<", "=="}, r \in Operands}

CoreNodes ==
    { FunctionDef("avoidObstacle", << StopStatement >>),
      CallStatement("avoidObstacle"),
      StopStatement }

ExtraNodes ==
    { RobotDeclaration("bot1"), MoveStatement("forward", 50), MoveStatement("backward", 0),
      MoveStatement("up", 5), TurnStatement("right", 90), TurnStatement("left", 45),
      LEDStatement("on", ""), LEDStatement("on", "RED"), LEDStatement("off", ""),
      ServoStatement("arm", 90), MotorStatement("left", 75), MotorStatement("right", 100),
      MotorStatement("default", 50), WaitStatement(500), SendStatement("hi"),
      CallStatement("f"),
      FunctionDef("f", << MoveStatement("forward", 50), WaitStatement(500) >>),
      FunctionDef("f", << RepeatStatement(2, << StopStatement >>) >>),
      FunctionDef("f", << >>),
      RepeatStatement(0, << StopStatement >>),
      RepeatStatement(3, << WaitStatement(500), StopStatement >>),
      WhileStatement(Condition("sensor.light", ">", "50"), << StopStatement >>),
      IfStatement(Condition("x", "<", "30"), << StopStatement >>,
                  << MoveStatement("forward", 50) >>) }
    \cup {IfStatement(c, << StopStatement >>, << >>) : c \in Conditions}

Programs == {Program(stmts) : stmts \in ChunkInputs(CoreNodes, ExtraNodes, MaxStatements)}

InitGenerator ==
    \E program \in Programs :
        /\ frontEnd = "Parser"
        /\ tokens = << >>
        /\ pos = 0
        /\ stack = << >>
        /\ statements = program.statements
        /\ declaredFunctions = {}
        /\ calledFunctions = {}
        /\ outcome = Returned
        /\ ast = program
        /\ previous = << >>
        /\ NoPeglibParser
        /\ NewGenerator

NextGenerator == GeneratorStep

SpecGenerator == InitGenerator /\ [][NextGenerator]_vars

(***************************************************************************)
(* One ArduinoGenerator, generate() called on it up to MaxCalls times, on  *)
(* the same Program or on another one.  previous keeps each Program with   *)
(* the text generate() returned for it.                                    *)
(***************************************************************************)
RegenPrograms ==
    { Program(<< >>),
      Program(<< RobotDeclaration("bot1"), MoveStatement("forward", 50),
                 TurnStatement("right", 90), StopStatement, LEDStatement("on", "") >>),
      Program(<< ServoStatement("arm", 90), MotorStatement("left", 75),
                 WaitStatement(500), SendStatement("hi") >>),
      Program(<< FunctionDef("avoidObstacle", << StopStatement >>),
                 CallStatement("avoidObstacle") >>),
      Program(<< IfStatement(Condition("sensor.distance", "<", "30"),
                             << StopStatement >>, << MoveStatement("backward", 5) >>) >>),
      Program(<< WhileStatement(Condition("sensor.light", ">", "50"),
                                << RepeatStatement(2, << StopStatement >>) >>) >>) }

InitRegenerate ==
    \E program \in RegenPrograms :
        /\ frontEnd = "Parser"
        /\ tokens = << >>
        /\ pos = 0
        /\ stack = << >>
        /\ statements = program.statements
        /\ declaredFunctions = {}
        /\ calledFunctions = {}
        /\ outcome = Returned
        /\ ast = program
        /\ previous = << >>
        /\ NoPeglibParser
        /\ NewGenerator

\* generate() has returned and the caller has its next Program: the text
\* is recorded, the generator is left as the call left it.
NextProgram ==
    /\ genState = "done"
    /\ Len(previous) + 1 < MaxCalls
    /\ previous' = Append(previous, [ast |-> ast, sketch |-> sketch])
    /\ ast' \in RegenPrograms
    /\ genState' = "idle"
    /\ UNCHANGED <<tokens, pos, stack, statements, declaredFunctions, calledFunctions,
                   outcome, work, indentLevel, generatedCode, setupCode,
                   variableDeclarations, calls, sketch, frontVars>>

NextRegenerate == GeneratorStep \/ NextProgram

SpecRegenerate == InitRegenerate /\ [][NextRegenerate]_vars

(***************************************************************************)
(* Parser::parse on sequences of leaf statements closed by the             *)
(* program-level END.  The tokens are the ones the Lexer gives for the     *)
(* text of each statement.                                                 *)
(***************************************************************************)
\* The tokens of the source text of a leaf statement
StatementTokens(stmt) ==
    CASE stmt.type = "RobotDeclaration" -> << KW("ROBOT"), ID(stmt.name) >>
      [] stmt.type = "Move" ->
            << KW("MOVE"), KW(stmt.direction), NUM(to_string(stmt.distance)) >>
      [] stmt.type = "Turn" ->
            << KW("TURN"), KW(stmt.direction), NUM(to_string(stmt.angle)) >>
      [] stmt.type = "Stop" -> << KW("STOP") >>
      [] stmt.type = "LED" ->
            << KW("LED"), KW(stmt.state) >>
            \o (IF stmt.color # "" THEN << ID(stmt.color) >> ELSE << >>)
      [] stmt.type = "Servo" ->
            << KW("SERVO"), ID(stmt.name), KW("TO"), NUM(to_string(stmt.angle)) >>
      [] stmt.type = "Motor" ->
            << KW("MOTOR"), KW(stmt.name), KW("SPEED"), NUM(to_string(stmt.speed)) >>
      [] stmt.type = "Wait" -> << KW("WAIT"), NUM(to_string(stmt.duration)) >>
      [] stmt.type = "Call" -> << KW("CALL"), ID(stmt.name) >>
      [] stmt.type = "Send" -> << KW("SEND"), KW("message"), STR(stmt.message) >>

RECURSIVE ProgramTokens(_)
ProgramTokens(stmts) ==
    IF stmts = << >> THEN << KW("END"), EofToken >>
    ELSE StatementTokens(Head(stmts)) \o ProgramTokens(Tail(stmts))

CoreLeaves ==
    { RobotDeclaration("bot1"), MoveStatement("forward", 50),
      TurnStatement("right", 90), StopStatement }

ExtraLeaves ==
    { MoveStatement("backward", 0), TurnStatement("left", 45),
      LEDStatement("on", ""), LEDStatement("off", "red"),
      ServoStatement("arm", 90), MotorStatement("left", 75),
      MotorStatement("right", 100), WaitStatement(0), WaitStatement(500),
      SendStatement("hi"), CallStatement("f") }

InitLeaf ==
    \E stmts \in ChunkInputs(CoreLeaves, ExtraLeaves, MaxLeaves) :
        /\ NewParser(ProgramTokens(stmts))
        /\ previous = <<>>
        /\ NewGenerator
        /\ NoPeglibParser

NextLeaf ==
    \/ DispatchRobot \/ DispatchMove \/ DispatchTurn \/ DispatchStop \/ DispatchLED
    \/ DispatchServo \/ DispatchMotor \/ DispatchWait \/ DispatchSend \/ DispatchCall
    \/ ParseReturn

SpecLeaf == InitLeaf /\ [][NextLeaf]_vars

(***************************************************************************)
(* Two Parser instances on the same tokens, one after the other; the       *)
(* outcome of the first and the JSON of its tree are kept in previous.     *)
(***************************************************************************)
\* Program::toJson and the toJson of every node class: a JSON object is the
\* record of its keys, a JSON array the sequence of its elements.
RECURSIVE toJson(_)
toJson(node) ==
    LET array(stmts) == [i \in 1..Len(stmts) |-> toJson(stmts[i])]
    IN  CASE node.type = "Program" ->
                [type |-> "Program", statements |-> array(node.statements)]
          [] node.type = "Condition" ->
                [type |-> "Condition", left |-> node.left, operator |-> node.op,
                 right |-> node.right]
          [] node.type = "If" ->
                [type |-> "If", condition |-> toJson(node.condition),
                 thenBody |-> array(node.thenBody), elseBody |-> array(node.elseBody)]
          [] node.type = "While" ->
                [type |-> "While", condition |-> toJson(node.condition),
                 body |-> array(node.body)]
          [] node.type = "Repeat" ->
                [type |-> "Repeat", times |-> node.times, body |-> array(node.body)]
          [] node.type = "Function" ->
                [type |-> "Function", name |-> node.name, body |-> array(node.body)]
          [] node.type = "LED" ->
                (IF node.color # ""
                 THEN [type |-> "LED", state |-> node.state, color |-> node.color]
                 ELSE [type |-> "LED", state |-> node.state])
          [] OTHER -> node

NoJson == [type |-> "none"]

\* parse() called a second time on the Parser that has already parsed: the
\* position and the two name sets are members and stay as they are.
SecondParseSameInstance ==
    /\ frontEnd = "Parser"
    /\ outcome # Running
    /\ previous = <<>>
    /\ previous' = << [outcome |-> outcome,
                       json |-> IF outcome = Returned THEN toJson(ast) ELSE NoJson] >>
    /\ stack' = <<>>
    /\ statements' = <<>>
    /\ outcome' = Running
    /\ ast' = NoProgram
    /\ UNCHANGED <<tokens, pos, declaredFunctions, calledFunctions, genVars, frontVars>>

\* The first parse is over: its outcome is recorded and a second Parser is
\* constructed from the same tokens.
SecondParser ==
    /\ frontEnd = "Parser"
    /\ outcome # Running
    /\ previous = <<>>
    /\ previous' = << [outcome |-> outcome,
                       json |-> IF outcome = Returned THEN toJson(ast) ELSE NoJson] >>
    /\ pos' = 0
    /\ stack' = <<>>
    /\ statements' = <<>>
    /\ declaredFunctions' = {}
    /\ calledFunctions' = {}
    /\ outcome' = Running
    /\ ast' = NoProgram
    /\ UNCHANGED <<tokens, genVars, frontVars>>

TwiceCore ==
    { <<KW("STOP")>>,
      <<KW("CALL"), ID("f")>>,
      <<KW("FUNCTION"), ID("f")>>,
      <<KW("IF"), ID("sensor.distance"), OP("<"), NUM("30"), KW("THEN")>>,
      <<KW("ELSE")>>,
      <<KW("END")>> }

TwiceExtra == (CoreChunks \cup ExtraChunks) \ TwiceCore

InitTwice ==
    \E toks \in TokenStreams(TwiceCore, TwiceExtra, MaxChunks) :
        /\ NewParser(toks)
        /\ previous = <<>>
        /\ NewGenerator
        /\ NoPeglibParser

NextTwice == ParserStep \/ SecondParser

SpecTwice == InitTwice /\ [][NextTwice]_vars

\* parse() called again on the Parser that has already parsed (main.cpp
\* 995-1013): program is a new local, while pos, declaredFunctions and
\* calledFunctions are members that parse() never assigns at its start.
ParseAgain ==
    /\ frontEnd = "Parser"
    /\ outcome # Running
    /\ previous = <<>>
    /\ previous' = << [outcome |-> outcome,
                       json |-> IF outcome = Returned THEN toJson(ast) ELSE NoJson] >>
    /\ statements' = <<>>
    /\ stack' = <<>>
    /\ outcome' = Running
    /\ ast' = NoProgram
    /\ UNCHANGED <<tokens, pos, declaredFunctions, calledFunctions, genVars, frontVars>>

NextAgain == ParserStep \/ ParseAgain

SpecAgain == InitTwice /\ [][NextAgain]_vars

(***************************************************************************)
(* parse() run to its end: the token-based Parser or the line-based        *)
(* PeglibParser, the running call taking its next step as long as it has   *)
(* one.                                                                    *)
(***************************************************************************)
LoopChunks ==
    { <<KW("IF"), ID("sensor.distance"), OP("<"), NUM("30"), KW("THEN")>>,
      <<KW("END")>> }

LoopLines == { "REPEAT 2 TIMES", "END" }

InitTerminates ==
    /\ previous = <<>>
    /\ NewGenerator
    /\ \/ \E toks \in TokenStreams(LoopChunks,
                                    (CoreChunks \cup ExtraChunks) \ LoopChunks,
                                    MaxChunks) :
             NewParser(toks) /\ NoPeglibParser
       \/ \E ls \in ChunkInputs(LoopLines, (CoreLines \cup ExtraLines) \ LoopLines,
                                 MaxLines) :
             NewPeglibParser(JoinSource(ls))

NextTerminates == ParserStep \/ LinesStep

SpecTerminates == InitTerminates /\ [][NextTerminates]_vars /\ WF_vars(NextTerminates)

(***************************************************************************)
(* Parser::parse on token sequences with one statement that is not         *)
(* well-formed: an operand missing or of another kind, a condition without *)
(* a comparison operator, an identifier where a statement has to start.    *)
(***************************************************************************)
WellFormedChunks ==
    { <<KW("STOP")>>,
      <<KW("IF"), ID("sensor.distance"), OP("<"), NUM("30"), KW("THEN")>>,
      <<KW("END")>> }

MalformedChunks ==
    { <<ID("EOF")>>,
      <<KW("ROBOT")>>,
      <<KW("ROBOT"), NUM("5")>>,
      <<KW("MOVE"), KW("forward")>>,
      <<KW("MOVE"), KW("forward"), ID("far")>>,
      <<KW("TURN")>>,
      <<KW("SERVO"), NUM("5"), KW("TO"), NUM("90")>>,
      <<KW("SERVO"), ID("arm"), NUM("90")>>,
      <<KW("SERVO")>>,
      <<KW("MOTOR")>>,
      <<KW("MOTOR"), KW("left"), NUM("75")>>,
      <<KW("WAIT")>>,
      <<KW("WAIT"), ID("soon")>>,
      <<KW("CALL")>>,
      <<KW("CALL"), NUM("5")>>,
      <<KW("SEND")>>,
      <<KW("SEND"), KW("message")>>,
      <<KW("SEND"), KW("message"), ID("hi")>>,
      <<KW("IF"), ID("x"), ID("y"), NUM("30"), KW("THEN")>>,
      <<KW("WHILE"), ID("x"), KW("DO"), NUM("30"), KW("DO")>>,
      <<KW("IF"), ID("x"), OP("<"), KW("THEN")>> }

InitMalformed ==
    \E toks \in TokenStreams(WellFormedChunks,
                             ((CoreChunks \cup ExtraChunks) \ WellFormedChunks)
                                 \cup MalformedChunks,
                             MaxChunks) :
        /\ NewParser(toks)
        /\ previous = <<>>
        /\ NewGenerator
        /\ NoPeglibParser

NextMalformed == ParserStep

SpecMalformed == InitMalformed /\ [][NextMalformed]_vars

(***************************************************************************)
(* Parser::parse on IF statements: THEN and ELSE blocks, empty or not,     *)
(* nested up to MaxIfChunks pieces, and short ones with one WHILE, REPEAT  *)
(* or FUNCTION header among them.                                          *)
(***************************************************************************)
IfChunks ==
    { <<KW("IF"), ID("sensor.distance"), OP("<"), NUM("30"), KW("THEN")>>,
      <<KW("ELSE")>>,
      <<KW("END")>>,
      <<KW("STOP")>> }

OtherHeaders ==
    { <<KW("WHILE"), ID("sensor.light"), OP(">"), NUM("50"), KW("DO")>>,
      <<KW("REPEAT"), NUM("3"), KW("TIMES")>>,
      <<KW("FUNCTION"), ID("f")>> }

IfInputs ==
    ChunkSeqs(IfChunks, MaxIfChunks)
    \cup UNION { {InsertAt(cs, i, x) : i \in 0..Len(cs), x \in OtherHeaders}
                 : cs \in ChunkSeqs(IfChunks, MaxChunks) }

InitIf ==
    \E cs \in IfInputs :
        /\ NewParser(Flatten(cs) \o <<EofToken>>)
        /\ previous = <<>>
        /\ NewGenerator
        /\ NoPeglibParser

NextIf ==
    \/ DispatchStop \/ DispatchUnknown
    \/ IfHeader \/ IfElse \/ IfEnd
    \/ WhileHeader \/ WhileEnd
    \/ RepeatHeader \/ RepeatEnd
    \/ FunctionHeader \/ FunctionEnd
    \/ ParseReturn

SpecIf == InitIf /\ [][NextIf]_vars

(***************************************************************************)
(* Inputs of the generator alone with FunctionDefs at any depth: one       *)
(* statement nested up to MaxDepth deep in If, While, Repeat and           *)
(* FunctionDef bodies, alone, after a Stop, or before a Call.              *)
(***************************************************************************)
MaxDepth == 3

Wrapped(s) ==
    { IfStatement(Condition("x", "<", "30"), << s >>, << >>),
      IfStatement(Condition("x", "<", "30"), << StopStatement >>, << s >>),
      WhileStatement(Condition("sensor.light", ">", "50"), << StopStatement, s >>),
      RepeatStatement(2, << s >>),
      FunctionDef("f", << s >>),
      FunctionDef("g", << s, StopStatement >>) }

RECURSIVE Nested(_)
Nested(depth) ==
    IF depth = 0 THEN {StopStatement}
    ELSE LET inner == Nested(depth - 1)
         IN  inner \cup UNION {Wrapped(s) : s \in inner}

HoistPrograms ==
    UNION { { Program(<< s >>),
              Program(<< StopStatement, s >>),
              Program(<< s, CallStatement("f") >>) } : s \in Nested(MaxDepth) }

InitHoist ==
    \E program \in HoistPrograms :
        /\ frontEnd = "Parser"
        /\ tokens = << >>
        /\ pos = 0
        /\ stack = << >>
        /\ statements = program.statements
        /\ declaredFunctions = {}
        /\ calledFunctions = {}
        /\ outcome = Returned
        /\ ast = program
        /\ previous = << >>
        /\ NoPeglibParser
        /\ NewGenerator

NextHoist ==
    \/ Generate
    \/ GenerateStop \/ GenerateCall
    \/ GenerateIf \/ GenerateWhile \/ GenerateRepeat
    \/ AddLine \/ increaseIndent \/ decreaseIndent
    \/ GenerateFunction \/ SaveSize \/ ExtractFunctionCode \/ EndFunction
    \/ GenerateReturn

SpecHoist == InitHoist /\ [][NextHoist]_vars

(***************************************************************************)
(* The actuation statements from source to sketch: Move, Turn and Motor    *)
(* statements parsed by the token Parser, MOTOR lines parsed by the        *)
(* line-based PeglibParser, then ArduinoGenerator::generate.  A program    *)
(* has at most MaxActuations statements, or is two Motor statements with   *)
(* any two speeds up to FullSpeed.                                         *)
(***************************************************************************)
MaxActuations == 2

FullSpeed == 100

ActuationNodes ==
    { MoveStatement("forward", 0), MoveStatement("backward", 50),
      MoveStatement("forward", 214748364), MoveStatement("forward", 214748365),
      MoveStatement("backward", INT_MAX),
      TurnStatement("left", 0), TurnStatement("right", 90),
      TurnStatement("left", 429496729), TurnStatement("right", 429496730),
      TurnStatement("left", INT_MAX),
      MotorStatement("arm", 50), MotorStatement("left", FullSpeed + 1) }

MotorPairs ==
    { << MotorStatement("left", a), MotorStatement("right", b) >> :
          a \in 0..FullSpeed, b \in 0..FullSpeed }

ActuationTokens(stmts) ==
    Flatten([i \in 1..Len(stmts) |-> StatementTokens(stmts[i])]) \o << EofToken >>

MotorLines ==
    { "MOTOR left SPEED 75", "MOTOR SPEED 75", "MOTOR right SPEED 250",
      "MOTOR left SPEED -5", "MOTOR arm SPEED 50", "MOTOR 40" }

InitActuate ==
    /\ previous = <<>>
    /\ NewGenerator
    /\ \/ \E stmts \in ChunkSeqs(ActuationNodes, MaxActuations) \cup MotorPairs :
             NewParser(ActuationTokens(stmts)) /\ NoPeglibParser
       \/ \E ls \in ChunkSeqs(MotorLines, MaxActuations) : NewPeglibParser(JoinSource(ls))

NextActuate ==
    \/ DispatchMove \/ DispatchTurn \/ DispatchMotor \/ ParseReturn
    \/ SplitLines \/ LineMotor \/ LinesReturn
    \/ Generate \/ GenerateMove \/ GenerateTurn \/ GenerateMotor \/ GenerateReturn

SpecActuate == InitActuate /\ [][NextActuate]_vars

(***************************************************************************)
(* LED statements and what follows them: token sequences of at most        *)
(* MaxLedChunks pieces, LED on, LED off and STOP any number of times and   *)
(* at most one other piece.                                                *)
(***************************************************************************)
MaxLedChunks == 3

LedChunks ==
    { <<KW("LED"), KW("on")>>, <<KW("LED"), KW("off")>>, <<KW("STOP")>> }

AfterLedChunks ==
    { <<ID("red")>>, <<ID("RED"), KW("STOP")>>, <<ID("EOF")>>, <<NUM("5")>>, <<STR("red")>>,
      <<OP("<")>>, <<KW("on")>>, <<KW("LED"), ID("blink")>>, <<KW("LED")>>,
      <<KW("LED"), KW("on"), ID("red")>>,
      <<KW("LED"), KW("on"), ID("red"), ID("green")>> }

InitLed ==
    \E toks \in TokenStreams(LedChunks, AfterLedChunks, MaxLedChunks) :
        /\ NewParser(toks)
        /\ previous = <<>>
        /\ NewGenerator
        /\ NoPeglibParser

NextLed == DispatchLED \/ DispatchStop \/ DispatchUnknown \/ ParseReturn

SpecLed == InitLed /\ [][NextLed]_vars

(***************************************************************************)
(* The line-based PeglibParser on lines it skips: sources of at most       *)
(* MaxSkipLines lines, STOP, REPEAT 2 TIMES and END any number of times    *)
(* and at most one other line.  After parse() has returned, a second       *)
(* PeglibParser is run on the same lines without the skipped ones;         *)
(* previous keeps the lines and the Program of the first run.              *)
(***************************************************************************)
MaxSkipLines == 4

RecognizedLines == { "STOP", "REPEAT 2 TIMES", "END" }

OtherLines ==
    { "MOVE forward 50", "IF sensor.distance < 30 THEN", "FUNCTION f", "STOP now",
      "ENDING", "stop", "WAIT 500", "LED on", "MOTOR left SPEED 75",
      "REPEAT", "REPEAT x TIMES", "WAIT", "LED" }

\* The final else of parseStatements takes the line
Skipped(line) ==
    /\ line # "END"
    /\ ~StartsWith(line, "REPEAT") /\ ~StartsWith(line, "WAIT")
    /\ ~StartsWith(line, "LED") /\ ~StartsWith(line, "MOTOR")
    /\ line # "STOP"

InitSkip ==
    /\ previous = <<>>
    /\ NewGenerator
    /\ \E ls \in ChunkInputs(RecognizedLines, OtherLines, MaxSkipLines) :
           NewPeglibParser(JoinSource(ls))

\* A new PeglibParser on the lines of the first without the skipped ones
ParseWithoutSkipped ==
    /\ frontEnd = "lines"
    /\ outcome = Returned
    /\ previous = <<>>
    /\ previous' = << [outcome |-> outcome, ast |-> ast, lines |-> lines] >>
    /\ source' = JoinSource(SelectSeq(lines, LAMBDA line : ~Skipped(line)))
    /\ lines' = << >>
    /\ index' = 0
    /\ stack' = << >>
    /\ statements' = << >>
    /\ declaredFunctions' = {}
    /\ calledFunctions' = {}
    /\ outcome' = Constructed
    /\ ast' = NoProgram
    /\ UNCHANGED <<tokens, pos, genVars, frontEnd, matches, accepted>>

NextSkip == LinesStep \/ ParseWithoutSkipped

SpecSkip == InitSkip /\ [][NextSkip]_vars

(***************************************************************************)
(* The same program given to the token Parser and to the PEG-grammar       *)
(* PeglibParser: the programs of HoistPrograms, as the tokens of their     *)
(* text and as the semantic actions the grammar fires on that text.  A     *)
(* rule's action fires when the rule has matched, after the actions of     *)
(* the rules inside it; If, While, Repeat and Block have no action.  The   *)
(* PEG parser runs after the token Parser has returned; previous keeps     *)
(* the Program the token Parser built.                                     *)
(***************************************************************************)
ConditionTokens(c) ==
    << ID(c.left), OP(c.op), IF Stoi(c.right).ok THEN NUM(c.right) ELSE ID(c.right) >>

RECURSIVE TreeTokens(_)
TreeTokens(stmts) ==
    IF stmts = << >> THEN << >>
    ELSE LET stmt == Head(stmts)
         IN  (CASE stmt.type = "If" ->
                       << KW("IF") >> \o ConditionTokens(stmt.condition) \o << KW("THEN") >>
                       \o TreeTokens(stmt.thenBody)
                       \o (IF stmt.elseBody # << >>
                           THEN << KW("ELSE") >> \o TreeTokens(stmt.elseBody) ELSE << >>)
                       \o << KW("END") >>
                [] stmt.type = "While" ->
                       << KW("WHILE") >> \o ConditionTokens(stmt.condition) \o << KW("DO") >>
                       \o TreeTokens(stmt.body) \o << KW("END") >>
                [] stmt.type = "Repeat" ->
                       << KW("REPEAT"), NUM(to_string(stmt.times)), KW("TIMES") >>
                       \o TreeTokens(stmt.body) \o << KW("END") >>
                [] stmt.type = "Function" ->
                       << KW("FUNCTION"), ID(stmt.name) >>
                       \o TreeTokens(stmt.body) \o << KW("END") >>
                [] OTHER -> StatementTokens(stmt))
             \o TreeTokens(Tail(stmts))

RECURSIVE FiredActions(_)
FiredActions(stmts) ==
    IF stmts = << >> THEN << >>
    ELSE LET stmt == Head(stmts)
         IN  (CASE stmt.type = "If" -> FiredActions(stmt.thenBody) \o FiredActions(stmt.elseBody)
                [] stmt.type \in {"While", "Repeat"} -> FiredActions(stmt.body)
                [] stmt.type = "Function" ->
                       FiredActions(stmt.body) \o << Match("Func", stmt.name, "") >>
                [] stmt.type = "Stop" -> << Match("Stop", "", "") >>
                [] stmt.type = "Call" -> << Match("Call", stmt.name, "") >>)
             \o FiredActions(Tail(stmts))

InitPeg ==
    \E program \in HoistPrograms :
        /\ NewParser(TreeTokens(program.statements) \o << EofToken >>)
        /\ source = ""
        /\ lines = << >>
        /\ index = 0
        /\ matches = FiredActions(program.statements)
        /\ accepted = TRUE
        /\ previous = <<>>
        /\ NewGenerator

\* A PeglibParser constructed on the text the token Parser has parsed
PegOnSameSource ==
    /\ frontEnd = "Parser"
    /\ outcome = Returned
    /\ previous = <<>>
    /\ previous' = << [outcome |-> outcome, ast |-> ast] >>
    /\ frontEnd' = "peg"
    /\ statements' = << >>
    /\ declaredFunctions' = {}
    /\ calledFunctions' = {}
    /\ outcome' = Running
    /\ ast' = NoProgram
    /\ UNCHANGED <<tokens, pos, stack, genVars, source, lines, index, matches, accepted>>

NextPeg ==
    \/ DispatchStop \/ DispatchCall
    \/ IfHeader \/ WhileHeader \/ RepeatHeader \/ FunctionHeader
    \/ IfElse \/ IfEnd \/ WhileEnd \/ RepeatEnd \/ FunctionEnd
    \/ ParseReturn
    \/ PegOnSameSource
    \/ PegStop \/ PegCall \/ PegFunc \/ PegReturn

SpecPeg == InitPeg /\ [][NextPeg]_vars

(***************************************************************************)
(* Properties of Parser::parse.                                            *)
(***************************************************************************)
\* The statements under a node
Children(node) ==
    CASE node.type = "If" -> node.thenBody \o node.elseBody
      [] node.type \in {"While", "Repeat", "Function"} -> node.body
      [] OTHER -> << >>

\* Every node of a statement list, at any depth, in source order
RECURSIVE AllNodes(_)
AllNodes(stmts) ==
    IF stmts = << >> THEN << >>
    ELSE << Head(stmts) >> \o AllNodes(Children(Head(stmts))) \o AllNodes(Tail(stmts))

NamesOf(stmts, type) ==
    LET all == AllNodes(stmts)
    IN  {all[i].name : i \in {j \in 1..Len(all) : all[j].type = type}}

CallNames(stmts) == NamesOf(stmts, "Call")

FunctionNames(stmts) == NamesOf(stmts, "Function")

IsException(o) == o.kind \in {"ParserException", "SemanticException"}

\* The message semanticAnalysis gives its exception; no statement rule uses it.
UndefinedFunctionError(o) ==
    /\ o.kind = "SemanticException"
    /\ Len(o.message) >= 10
    /\ SubSeq(o.message, 1, 10) = "Function '"

\* A statement rule raised a syntax or range error.
RuleErrorRaised == IsException(outcome) /\ ~UndefinedFunctionError(outcome)

\* C1: when no statement rule raises a syntax or range error, parse throws
\* SemanticException exactly when some name called by a CALL, at any depth,
\* is the name of no FUNCTION of the sequence, wherever that FUNCTION stands;
\* so in every Program parse returns the Call names are FunctionDef names.
C1_CallsAreDefinedOrParseThrows ==
    (outcome # Running /\ ~RuleErrorRaised) =>
        /\ (outcome.kind = "SemanticException")
               <=> ~(CallNames(statements) \subseteq FunctionNames(statements))
        /\ outcome = Returned =>
               /\ ast = Program(statements)
               /\ CallNames(ast.statements) \subseteq FunctionNames(ast.statements)

\* A returned Program whose CALL comes before the FUNCTION it names.
C1_ForwardCallAccepted ==
    /\ outcome = Returned
    /\ \E i, j \in 1..Len(ast.statements) :
          /\ i < j
          /\ ast.statements[i].type = "Call"
          /\ ast.statements[j].type = "Function"
          /\ ast.statements[i].name = ast.statements[j].name

\* The rule that is inside its block finds no END where the body stops.
MissingEnd ==
    /\ AtBlockEnd
    /\ ~Check("END")
    /\ ~(Top.rule = "If" /\ ~Top.inElse /\ Check("ELSE"))

\* C2: when a block is open and its END is missing where its body stops,
\* parse throws ParserException (END expected) there, unless a statement
\* inside the block has already ended the parse with its own exception;
\* parse never returns a Program while a block is open.
C2_MissingEndThrows ==
    /\ []((outcome # Running /\ stack # << >>) => (IsException(outcome) /\ ast = NoProgram))
    /\ [][MissingEnd =>
            /\ outcome'.kind = "ParserException"
            /\ outcome'.expected = "END"
            /\ ast' = NoProgram]_vars

\* The stream ended inside an open block and parse threw ParserException.
C2_StreamEndsInsideBlock ==
    /\ outcome.kind = "ParserException"
    /\ outcome.expected = "END"
    /\ stack # << >>
    /\ Peek.type = "END_OF_FILE"

\* C2 as first stated: every token sequence with a block header and no END
\* after it ends with ParserException.
C2_UnclosedBlockIsParserException ==
    (/\ outcome # Running
     /\ stack # << >>
     /\ \A i \in 1..Len(tokens) : tokens[i].value # "END")
        => outcome.kind = "ParserException"

\* C3: once a statement rule has raised ParserException or SemanticException,
\* at any depth, parse is over with that exception: no Program exists, no
\* token is consumed any more, nothing is added to the tree, and the
\* generator is never started.
C3_FirstErrorEndsParse ==
    /\ [](IsException(outcome) => (ast = NoProgram /\ genState = "idle"))
    /\ [][IsException(outcome) =>
            UNCHANGED <<outcome, pos, ast, stack, statements>>]_vars

\* A rule inside a block threw while tokens were still left.
C3_ErrorInsideBlockWithTokensLeft ==
    /\ IsException(outcome)
    /\ stack # << >>
    /\ pos + 1 < Len(tokens)

(***************************************************************************)
(* Properties of the numbers the parsers store.                            *)
(***************************************************************************)
\* The nodes held by the open rules, innermost last
RECURSIVE FrameNodes(_)
FrameNodes(frames) ==
    IF frames = << >> THEN << >>
    ELSE AllNodes(Head(frames).thenBody) \o AllNodes(Head(frames).body)
         \o FrameNodes(Tail(frames))

\* Every node a parser has built so far
Built == AllNodes(statements) \o FrameNodes(stack)

Returns == IF outcome = Returned THEN AllNodes(ast.statements) ELSE << >>

C5_CountsNonNegative ==
    frontEnd \in {"Parser", "lines"} =>
        \A i \in 1..Len(Returns) :
            /\ Returns[i].type = "Repeat" => Returns[i].times >= 0
            /\ Returns[i].type = "Wait" => Returns[i].duration >= 0
            /\ Returns[i].type = "Move" => Returns[i].distance >= 0

(***************************************************************************)
(* Properties of ArduinoGenerator::generate.  The expected text of a       *)
(* statement list is written out here as a lowering of the tree: the lines *)
(* of each statement in emission order, a block as its header line, its    *)
(* body one level deeper and a closing brace.  A FunctionDef puts nothing  *)
(* in the place it stands.                                                 *)
(***************************************************************************)
LeafLines(stmt) ==
    CASE stmt.type = "RobotDeclaration" -> generateRobotDeclaration(stmt)
      [] stmt.type = "Move" -> generateMove(stmt, stmt.distance * 10)
      [] stmt.type = "Turn" -> generateTurn(stmt, stmt.angle * 5)
      [] stmt.type = "Stop" -> generateStop(stmt)
      [] stmt.type = "LED" -> generateLED(stmt)
      [] stmt.type = "Servo" -> generateServo(stmt)
      [] stmt.type = "Motor" -> generateMotor(stmt)
      [] stmt.type = "Wait" -> generateWait(stmt)
      [] stmt.type = "Call" -> generateCall(stmt)
      [] stmt.type = "Send" -> generateSend(stmt)
      [] OTHER -> << >>

RECURSIVE Lower(_, _), LowerNode(_, _)
Lower(stmts, lvl) ==
    IF stmts = << >> THEN << >>
    ELSE LowerNode(Head(stmts), lvl) \o Lower(Tail(stmts), lvl)

LowerNode(stmt, lvl) ==
    CASE stmt.type = "If" ->
            << indent(lvl) \o "if " \o generateCondition(stmt.condition) \o " {" >>
            \o Lower(stmt.thenBody, lvl + 1)
            \o (IF stmt.elseBody # << >>
                THEN << indent(lvl) \o "} else {" >> \o Lower(stmt.elseBody, lvl + 1)
                ELSE << >>)
            \o << indent(lvl) \o "}" >>
      [] stmt.type = "While" ->
            << indent(lvl) \o "while " \o generateCondition(stmt.condition) \o " {" >>
            \o Lower(stmt.body, lvl + 1) \o << indent(lvl) \o "}" >>
      [] stmt.type = "Repeat" ->
            << indent(lvl) \o "for (int i = 0; i < " \o to_string(stmt.times) \o "; i++) {" >>
            \o Lower(stmt.body, lvl + 1) \o << indent(lvl) \o "}" >>
      [] stmt.type = "Function" -> << >>
      [] OTHER -> [i \in 1..Len(LeafLines(stmt)) |-> indent(lvl) \o LeafLines(stmt)[i]]

\* The positions of the top-level statements of the given type
TopLevel(type) == {i \in 1..Len(ast.statements) : ast.statements[i].type = type}

\* The Program holds exactly one FunctionDef, at position f, and at least
\* one Call, every Call being to that function.
OneFunctionAndItsCalls(f) ==
    /\ TopLevel("Function") = {f}
    /\ TopLevel("Call") # {}
    /\ \A c \in TopLevel("Call") : ast.statements[c].name = ast.statements[f].name

\* C7: when generate has returned for a Program holding one FunctionDef f
\* and Calls to f, the hoisted definitions are exactly one block for f, the
\* header, the lines of the body statements in emission order, the closing
\* brace, and the loop body is the lowering of the other statements: one
\* invocation line per Call and no line of the function's body.
C7_FunctionHoistedInOrder ==
    (genState = "done" /\ frontEnd = "Parser") =>
        \A f \in 1..Len(ast.statements) :
            OneFunctionAndItsCalls(f) =>
                /\ variableDeclarations =
                       << "void " \o ast.statements[f].name \o "() {",
                          JoinLines(Lower(ast.statements[f].body, 1)),
                          "}", "" >>
                /\ generatedCode = Lower(ast.statements, 0)

\* The operand after the substitution, by what the operand contains
C8_Substituted(operand) ==
    IF Contains(operand, "sensor.distance") THEN "analogRead(14)"
    ELSE IF Contains(operand, "sensor.light") THEN "analogRead(15)"
    ELSE operand

\* The operand after the substitution, by what the operand is
C8_SubstitutedWhole(operand) ==
    IF operand = "sensor.distance" THEN "analogRead(14)"
    ELSE IF operand = "sensor.light" THEN "analogRead(15)"
    ELSE operand

\* The header line of an IF or WHILE whose operands were lowered to left, right
HeaderLine(stmt, left, right) ==
    (IF stmt.type = "If" THEN "if " ELSE "while ")
    \o "(" \o left \o " " \o stmt.condition.op \o " " \o right \o ") {"

\* The positions of the top-level IF and WHILE statements
Tests == TopLevel("If") \cup TopLevel("While")

Emitted == {generatedCode[i] : i \in 1..Len(generatedCode)}

\* C8 (amended): when generate has returned, the test of every top-level IF
\* and WHILE is the condition with each operand that contains
\* sensor.distance replaced by analogRead(14), each other operand that
\* contains sensor.light replaced by analogRead(15), and every operand that
\* contains neither, and the operator, unchanged; IF sensor.distance < 30
\* gives the line "if (analogRead(14) < 30) {".
C8_SensorOperandsByContainment ==
    (genState = "done" /\ frontEnd = "Parser") =>
        /\ \A i \in Tests :
              HeaderLine(ast.statements[i],
                         C8_Substituted(ast.statements[i].condition.left),
                         C8_Substituted(ast.statements[i].condition.right)) \in Emitted
        /\ (\E i \in TopLevel("If") :
                ast.statements[i].condition = Condition("sensor.distance", "<", "30"))
           => "if (analogRead(14) < 30) {" \in Emitted

\* generate returned for IF x < sensor.light and for IF sensor.distance < 30:
\* a sensor on the right, a plain operand on the left, and the example.
C8_SensorOnEitherSide ==
    /\ genState = "done"
    /\ \E i \in TopLevel("If") :
          /\ ast.statements[i].condition.left \in {"x", "30"}
          /\ ast.statements[i].condition.right = "sensor.light"
    /\ \E i \in 1..Len(generatedCode) :
          generatedCode[i] \in {"if (x < analogRead(15)) {", "if (30 < analogRead(15)) {",
                                "if (x == analogRead(15)) {", "if (30 == analogRead(15)) {"}

\* C8 as stated: only an operand that is the sensor reference is replaced,
\* every other operand is passed through unchanged.
C8_OnlySensorReferencesReplaced ==
    (genState = "done" /\ frontEnd = "Parser") =>
        \A i \in Tests :
            HeaderLine(ast.statements[i],
                       C8_SubstitutedWhole(ast.statements[i].condition.left),
                       C8_SubstitutedWhole(ast.statements[i].condition.right)) \in Emitted

\* Every Repeat node of a statement list with the indentation it is lowered at
RECURSIVE Repeats(_, _)
Repeats(stmts, lvl) ==
    IF stmts = << >> THEN << >>
    ELSE LET stmt == Head(stmts)
             inner == IF stmt.type = "Function" THEN 1 ELSE lvl + 1
         IN  (IF stmt.type = "Repeat" THEN << [node |-> stmt, lvl |-> lvl] >> ELSE << >>)
             \o Repeats(Children(stmt), inner)
             \o Repeats(Tail(stmts), lvl)

\* The positions of REPEAT 0 TIMES among the tokens the parser consumed
RepeatZeroTokens ==
    {i \in 1..(pos - 2) :
        /\ tokens[i] = KW("REPEAT")
        /\ tokens[i + 1] = NUM("0")
        /\ tokens[i + 2] = KW("TIMES")}

\* C9: a Program parse returns has one Repeat(times = 0) per REPEAT 0 TIMES
\* of the tokens it consumed, and when generate has returned, the sketch holds for every
\* Repeat(n) of the Program its counter loop: the line
\* for (int i = 0; i < n; i++) {, the lines of the body, the closing brace.
C9_RepeatIsCounterLoop ==
    /\ (frontEnd = "Parser" /\ outcome = Returned) =>
          LET all == AllNodes(ast.statements)
          IN  Cardinality({i \in 1..Len(all) :
                              all[i].type = "Repeat" /\ all[i].times = 0})
              = Cardinality(RepeatZeroTokens)
    /\ (frontEnd = "Parser" /\ genState = "done") =>
          LET loops == Repeats(ast.statements, 0)
          IN  \A i \in 1..Len(loops) :
                  Contains(sketch, JoinLines(Lower(<< loops[i].node >>, loops[i].lvl)))

(***************************************************************************)
(* Properties of the tree Parser::parse returns.                           *)
(***************************************************************************)
CallTokens == {i \in 1..Len(tokens) : tokens[i] = KW("CALL")}

Bot1Example ==
    << RobotDeclaration("bot1"), MoveStatement("forward", 50),
       TurnStatement("right", 90), StopStatement >>

\* C6 (amended): for a sequence of leaf statements without a CALL, closed
\* by the program-level END, parse throws nothing, and the Program it
\* returns has the nodes of the statements one for one in source order;
\* for ROBOT bot1, MOVE forward 50, TURN right 90, STOP, END the statements
\* are exactly RobotDeclaration(bot1), Move(forward,50), Turn(right,90), Stop.
C6_LeavesInSourceOrder ==
    CallTokens = {} =>
        /\ ~IsException(outcome)
        /\ outcome = Returned =>
              /\ ProgramTokens(ast.statements) = tokens
              /\ tokens = ProgramTokens(Bot1Example) => ast.statements = Bot1Example

\* parse returned the four nodes of the bot1 example.
C6_Bot1ExampleParsed ==
    /\ outcome = Returned
    /\ tokens = ProgramTokens(Bot1Example)
    /\ ast = Program(Bot1Example)

\* C6 as stated: for every sequence of leaf statements closed by END, parse
\* ends by returning the Program of the statements, in source order.
C6_EveryLeafSequenceParses ==
    outcome # Running =>
        /\ outcome = Returned
        /\ ProgramTokens(ast.statements) = tokens

\* C10: when the second Parser constructed from the same tokens has ended,
\* it ended as the first did: both returned and the JSON of the two trees is
\* equal, or both threw an exception of the same kind.
C10_SecondParseSameOutcome ==
    (previous # <<>> /\ outcome # Running) =>
        /\ outcome.kind = previous[1].outcome.kind
        /\ outcome = Returned => toJson(ast) = previous[1].json

\* Both parsers returned a tree with a block in it.
C10_BothReturnedATree ==
    /\ previous # <<>>
    /\ outcome = Returned
    /\ previous[1].outcome = Returned
    /\ \E i \in 1..Len(ast.statements) : Children(ast.statements[i]) # << >>

(***************************************************************************)
(* Properties of the calls of parse().                                     *)
(***************************************************************************)
\* C11: when Parser::parse has returned a Program the cursor is at the
\* END_OF_FILE token or past the last token: no token of the input is left
\* unparsed.
C11_EntireInputConsumed ==
    (frontEnd = "Parser" /\ outcome = Returned) => Peek.type = "END_OF_FILE"

\* C12: a second call of parse() on the same Parser ends as the first call
\* did: it raises an error of the same kind, or returns a Program whose
\* JSON is equal to the JSON of the first Program.
C12_SecondCallIsFreshRun ==
    (frontEnd = "Parser" /\ previous # <<>> /\ outcome # Running) =>
        /\ previous[1].outcome.kind = outcome.kind
        /\ previous[1].outcome = Returned => previous[1].json = toJson(ast)

(***************************************************************************)
(* Properties of the calls of generate().                                  *)
(***************************************************************************)
\* C13: whenever generate() has returned on a generator that was used
\* before, on this Program or on others, the text is the text every earlier
\* call returned for the same Program, and the buffers hold nothing of the
\* earlier calls: the first call on the empty Program and a later one give
\* the same text.
C13_SameTextForSameProgram ==
    (genState = "done" /\ frontEnd = "Parser") =>
        \A i \in 1..Len(previous) :
            previous[i].ast = ast => previous[i].sketch = sketch

\* The third call returned, for the Program of the first call, after a
\* second call on another Program, neither of them empty.
C13_SameProgramAfterAnother ==
    /\ genState = "done"
    /\ Len(previous) = 2
    /\ previous[1].ast = ast
    /\ previous[2].ast # ast
    /\ previous[2].ast.statements # << >>
    /\ ast.statements # << >>

\* C14: parse ends, by a return or an exception, on every input, and while
\* it runs every step of the token-based Parser moves the cursor forward
\* and every step of the line-based PeglibParser moves the line index
\* forward or leaves a parseStatements loop.
C14_ParseTerminates ==
    /\ (outcome \in {Running, Constructed}) ~> (outcome = Returned \/ IsException(outcome))
    /\ [][(outcome = Running /\ outcome' = Running) =>
              \/ frontEnd = "Parser" /\ pos' > pos
              \/ frontEnd = "lines" /\ (index' > index \/ Len(stack') < Len(stack))]_vars

\* The line-based parser returned after a REPEAT whose END line is missing,
\* the token-based one after an IF block with a statement in it.
C14_LoopsLeft ==
    /\ outcome = Returned
    /\ \/ /\ frontEnd = "lines"
          /\ index = Len(lines)
          /\ lines # << >> /\ lines[Len(lines)] # "END"
          /\ \E i \in 1..Len(ast.statements) : ast.statements[i].type = "Repeat"
       \/ /\ frontEnd = "Parser"
          /\ \E i \in 1..Len(ast.statements) :
                 /\ ast.statements[i].type = "If"
                 /\ ast.statements[i].thenBody # << >>

(***************************************************************************)
(* Properties of the statement rules on input that is not well-formed.     *)
(***************************************************************************)
\* The ELSE that ends the THEN block of the open IF
AtElseOfIf ==
    IF stack = <<>> THEN FALSE ELSE Top.rule = "If" /\ ~Top.inElse /\ Check("ELSE")

\* C15: when the token where a statement has to start, at top level or in a
\* block, is none of the fourteen statement keywords, is not END and is not
\* of kind END_OF_FILE, the step parse takes there throws ParserException.
C15_UnknownTokenRejected ==
    [][(/\ frontEnd = "Parser"
        /\ outcome = Running
        /\ Peek.value \notin (StatementKeywords \cup {"END"})
        /\ Peek.type # "END_OF_FILE"
        /\ ~AtElseOfIf)
       => outcome'.kind = "ParserException"]_vars

\* The leaf rules that take operands, and those whose first operand is a name
LeafKeywords == {"ROBOT", "MOVE", "TURN", "SERVO", "MOTOR", "WAIT", "CALL", "SEND"}

NameRules == {"ROBOT", "SERVO", "CALL"}

\* The keyword of a leaf rule directly followed by the end-of-stream marker
OperandMissing == Peek.value \in LeafKeywords /\ PeekAt(pos + 1).type = "END_OF_FILE"

\* A NUMBER where ROBOT, SERVO or CALL requires a name
NameOfWrongKind == Peek.value \in NameRules /\ PeekAt(pos + 1).type = "NUMBER"

\* C16: when the statement that starts at the cursor is a leaf rule's keyword
\* followed directly by the end-of-stream marker, or ROBOT, SERVO or CALL
\* followed by a NUMBER, the step parse takes there throws ParserException
\* and adds no node.
C16_MalformedLeafRejected ==
    [][(AtStatement /\ (OperandMissing \/ NameOfWrongKind))
       => /\ outcome'.kind = "ParserException"
          /\ statements' = statements
          /\ stack' = stack]_vars


(***************************************************************************)
(* Properties of the values the nodes carry.                               *)
(***************************************************************************)
\* The statement at the cursor of the token-based Parser, or at the line
\* index of the line-based PeglibParser, has a direction or an LED state
\* outside its pair.
ValueOutsidePair ==
    \/ /\ AtStatement
       /\ \/ Check("MOVE") /\ PeekAt(pos + 1).value \notin {"forward", "backward"}
          \/ Check("TURN") /\ PeekAt(pos + 1).value \notin {"left", "right"}
          \/ Check("LED") /\ PeekAt(pos + 1).value \notin {"on", "off"}
    \/ /\ AtLine
       /\ ~StartsWith(Line, "REPEAT") /\ ~StartsWith(Line, "WAIT")
       /\ StartsWith(Line, "LED")
       /\ Len(split(Line, " ")) >= 2
       /\ split(Line, " ")[2] \notin {"on", "off"}

\* C17: in a Program the token-based Parser or the line-based PeglibParser
\* returns, every Move has direction forward or backward, every Turn left
\* or right and every LED state on or off, and the step that meets another
\* value in one of these places throws SemanticException.
C17_DirectionsAndStatesInPairs ==
    /\ [](frontEnd \in {"Parser", "lines"} =>
            \A i \in 1..Len(Returns) :
                /\ Returns[i].type = "Move" => Returns[i].direction \in {"forward", "backward"}
                /\ Returns[i].type = "Turn" => Returns[i].direction \in {"left", "right"}
                /\ Returns[i].type = "LED" => Returns[i].state \in {"on", "off"})
    /\ [][ValueOutsidePair => outcome'.kind = "SemanticException"]_vars


(***************************************************************************)
(* Properties of the conditions.                                           *)
(***************************************************************************)
ComparisonOperators == {"<", ">", "==", "!="}

\* parseStatement is about to call parseIfStatement or parseWhileStatement.
AtConditionHeader == AtStatement /\ (Check("IF") \/ Check("WHILE"))

\* C18: a header that is accepted has moved the cursor over its keyword, the
\* three tokens of the condition and THEN or DO; a header whose middle token
\* is not one of <, >, ==, != is rejected; and in a Program Parser::parse
\* returns, the operator of the condition of every If and While is one of
\* the four.
C18_ConditionIsComparison ==
    /\ [][(AtConditionHeader /\ outcome' = Running) => pos' = pos + 5]_vars
    /\ [][(AtConditionHeader /\ PeekAt(pos + 2).value \notin ComparisonOperators)
              => IsException(outcome')]_vars
    /\ [](frontEnd = "Parser" =>
            \A i \in 1..Len(Returns) :
                Returns[i].type \in {"If", "While"}
                    => Returns[i].condition.op \in ComparisonOperators)


(***************************************************************************)
(* Properties of the cursor.                                               *)
(***************************************************************************)
\* C19: the cursor of the Parser stays between 0 and the number of tokens
\* and no step moves it back, so no token is read by two statement rules.
C19_CursorMovesForward ==
    /\ [](frontEnd = "Parser" => 0 <= pos /\ pos <= Len(tokens))
    /\ [][frontEnd = "Parser" => pos' >= pos]_vars

\* A rule has thrown with the cursor behind the last token, after an
\* earlier statement was parsed.
C19_CursorAtTheEnd ==
    /\ frontEnd = "Parser"
    /\ IsException(outcome)
    /\ pos = Len(tokens)
    /\ statements # << >>

(***************************************************************************)
(* Properties of IF, THEN, ELSE and END.                                   *)
(***************************************************************************)
\* The words of the source text of a statement list, an ELSE written only
\* in front of an ELSE block that has statements
RECURSIVE WordsOf(_)
WordsOf(stmts) ==
    IF stmts = << >> THEN << >>
    ELSE LET stmt == Head(stmts)
             cond == << stmt.condition.left, stmt.condition.op, stmt.condition.right >>
         IN  (CASE stmt.type = "If" ->
                      << "IF" >> \o cond \o << "THEN" >> \o WordsOf(stmt.thenBody)
                      \o (IF stmt.elseBody # << >>
                          THEN << "ELSE" >> \o WordsOf(stmt.elseBody) ELSE << >>)
                      \o << "END" >>
                [] stmt.type = "While" ->
                      << "WHILE" >> \o cond \o << "DO" >> \o WordsOf(stmt.body) \o << "END" >>
                [] stmt.type = "Repeat" ->
                      << "REPEAT", to_string(stmt.times), "TIMES" >> \o WordsOf(stmt.body)
                      \o << "END" >>
                [] stmt.type = "Function" ->
                      << "FUNCTION", stmt.name >> \o WordsOf(stmt.body) \o << "END" >>
                [] OTHER ->
                      [i \in 1..Len(StatementTokens(stmt)) |-> StatementTokens(stmt)[i].value])
             \o WordsOf(Tail(stmts))

\* words without each ELSE that is directly followed by END
RECURSIVE DropEmptyElse(_)
DropEmptyElse(words) ==
    IF words = << >> THEN << >>
    ELSE IF Len(words) >= 2 /\ words[1] = "ELSE" /\ words[2] = "END"
    THEN DropEmptyElse(Tail(words))
    ELSE << Head(words) >> \o DropEmptyElse(Tail(words))

\* The text of the first n tokens
WordsRead(n) == [i \in 1..n |-> tokens[i].value]

\* The THEN block of the innermost open rule is being parsed.
InThenBlock == IF stack = << >> THEN FALSE ELSE Top.rule = "If" /\ ~Top.inElse

\* C20: the Program parse returns is the source text it has read, every
\* statement in the THEN or ELSE block it was written in (the END that
\* closes the program aside); an ELSE met in the THEN block of the innermost
\* open IF opens the ELSE block of that IF and of no other; an ELSE met
\* anywhere else, in an ELSE block, in a WHILE, REPEAT or FUNCTION body or
\* at top level, ends parse with ParserException.
C20_ElseOfInnermostIf ==
    /\ [](outcome = Returned =>
            WordsOf(ast.statements) \in {DropEmptyElse(WordsRead(pos)),
                                         DropEmptyElse(WordsRead(pos - 1))})
    /\ [][(outcome = Running /\ Check("ELSE") /\ InThenBlock) =>
              /\ outcome' = Running
              /\ Len(stack') = Len(stack)
              /\ SubSeq(stack', 1, Len(stack) - 1) = SubSeq(stack, 1, Len(stack) - 1)
              /\ stack'[Len(stack)].inElse
              /\ stack'[Len(stack)].thenBody = Top.body
              /\ stack'[Len(stack)].body = << >>]_vars
    /\ [][(outcome = Running /\ Check("ELSE") /\ ~InThenBlock) =>
              outcome'.kind = "ParserException"]_vars

\* An IF without ELSE was returned whose THEN block holds an IF with
\* statements in its ELSE block.
C20_InnerIfHasTheElse ==
    /\ outcome = Returned
    /\ \E i \in 1..Len(ast.statements) :
           LET outer == ast.statements[i]
           IN  /\ outer.type = "If"
               /\ outer.elseBody = << >>
               /\ \E j \in 1..Len(outer.thenBody) :
                      /\ outer.thenBody[j].type = "If"
                      /\ outer.thenBody[j].elseBody # << >>

(***************************************************************************)
(* Properties of ArduinoGenerator::generateFunction at any depth.          *)
(***************************************************************************)
\* The names of the FunctionDef nodes of a statement list, outermost first
FunctionDefNames(stmts) ==
    LET all == AllNodes(stmts)
        defs == SelectSeq(all, LAMBDA n : n.type = "Function")
    IN  [i \in 1..Len(defs) |-> defs[i].name]

IsHeader(entry) == Len(entry) >= 5 /\ SubSeq(entry, 1, 5) = "void "

\* The header entries of the hoisted definitions, in their order
HoistedHeaders ==
    SelectSeq(variableDeclarations, IsHeader)

IsPrefix(s, t) == Len(s) <= Len(t) /\ s = SubSeq(t, 1, Len(s))

\* A FunctionDef stands inside the body of an If, While or Repeat
FunctionInBlock ==
    LET all == AllNodes(ast.statements)
    IN  \E i \in 1..Len(all) :
            /\ all[i].type \in {"If", "While", "Repeat"}
            /\ FunctionDefNames(Children(all[i])) # << >>

\* C21: generating a FunctionDef, at top level or at any depth in If, While
\* and Repeat bodies, leaves the control buffer and the indentation counter
\* as they were and adds one header to the hoisted definitions: outside a
\* function body the control buffer is always a prefix of the lowering of
\* the tree without its FunctionDefs, when generate has returned it is that
\* lowering, the counter is 0 and the hoisted definitions hold one header
\* per FunctionDef node, and generating a Call adds no hoisted entry.
C21_FunctionDefLeavesControlBuffer ==
    /\ []((genState = "walking" /\ calls = << >>) =>
              IsPrefix(generatedCode, Lower(ast.statements, 0)))
    /\ [](genState = "done" =>
              /\ generatedCode = Lower(ast.statements, 0)
              /\ indentLevel = 0
              /\ HoistedHeaders =
                     [i \in 1..Len(FunctionDefNames(ast.statements)) |->
                         "void " \o FunctionDefNames(ast.statements)[i] \o "() {"]
              /\ Len(variableDeclarations) = 4 * Len(FunctionDefNames(ast.statements)))
    /\ [][generateStatement("Function") =>
              /\ generatedCode' = generatedCode
              /\ Len(variableDeclarations') = Len(variableDeclarations) + 1]_vars
    /\ [][generateStatement("Call") => variableDeclarations' = variableDeclarations]_vars

\* generate has returned for a Program with a FunctionDef inside a block
\* and lines in the control buffer
C21_NestedFunctionDefHoisted ==
    /\ genState = "done"
    /\ FunctionInBlock
    /\ generatedCode # << >>
    /\ Len(ast.statements) = 2


\* C22: when generate has returned, every header of the hoisted definitions
\* is followed at once by the body entry of its own function and by that
\* function's closing line, also for a FunctionDef in the body of another:
\* no entry of another function stands between them.
C22_HoistedBlocksContiguous ==
    genState = "done" =>
        \A i \in 1..Len(variableDeclarations) :
            IsHeader(variableDeclarations[i]) =>
                /\ i + 2 <= Len(variableDeclarations)
                /\ ~IsHeader(variableDeclarations[i + 1])
                /\ variableDeclarations[i + 2] = "}"


(***************************************************************************)
(* Properties of the indentation counter.                                  *)
(***************************************************************************)
\* The blocks open at this point of the walk, counted from what is left to
\* do up to the end of the function body being generated: one per pending
\* decreaseIndent() that has no pending increaseIndent() before it.
RECURSIVE OpenBlocks(_)
OpenBlocks(w) ==
    IF w = << >> \/ Head(w).op = "endFunction" THEN 0
    ELSE (CASE Head(w).op = "decreaseIndent" -> 1
            [] Head(w).op = "increaseIndent" -> 0 - 1
            [] OTHER -> 0) + OpenBlocks(Tail(w))

\* The block depth of a line emitted now: the open blocks, and the body of
\* the function being generated
Depth == (IF calls # << >> THEN 1 ELSE 0) + OpenBlocks(work)

RECURSIVE LeadingSpaces(_)
LeadingSpaces(line) ==
    IF Len(line) > 0 /\ SubSeq(line, 1, 1) = " "
    THEN 1 + LeadingSpaces(SubSeq(line, 2, Len(line)))
    ELSE 0

\* C23: the indentation counter is never negative, during the walk it is
\* the number of open blocks (so it is after a statement what it was before
\* it), it is 0 when generate has returned, and every line appended to the
\* control buffer starts with two spaces per open block.
C23_IndentationBalanced ==
    /\ [](indentLevel >= 0)
    /\ [](genState = "walking" => indentLevel = Depth)
    /\ [](genState = "done" => indentLevel = 0)
    /\ [][\A i \in (Len(generatedCode) + 1)..Len(generatedCode') :
              LeadingSpaces(generatedCode'[i]) = 2 * Depth]_vars

\* A line is in the control buffer two blocks deep, and the walk is back at
\* top level after an If without else
C23_LineTwoBlocksDeep ==
    /\ genState = "walking"
    /\ calls = << >>
    /\ work = << >>
    /\ indentLevel = 0
    /\ \E i \in 1..Len(generatedCode) : LeadingSpaces(generatedCode[i]) = 4
    /\ ast.statements[Len(ast.statements)].type = "If"
    /\ ast.statements[Len(ast.statements)].elseBody = << >>


(***************************************************************************)
(* Properties of the actuation statements in the sketch.                   *)
(***************************************************************************)
StartsWithText(line, text) ==
    Len(line) >= Len(text) /\ SubSeq(line, 1, Len(text)) = text

\* The positions of the control buffer holding an analogWrite instruction
Actuations ==
    {i \in 1..Len(generatedCode) : StartsWithText(generatedCode[i], "analogWrite(")}

\* The positions of the Motor nodes among the top-level statements
MotorNodes == TopLevel("Motor")

\* C24: when generate has returned for a Program a parser accepted, the
\* control buffer holds one analogWrite instruction per Motor node.
C24_OneActuationPerMotor ==
    genState = "done" => Cardinality(Actuations) = Cardinality(MotorNodes)


\* The Motor nodes generateMotor writes a value for, in order
WrittenMotors ==
    SelectSeq(ast.statements, LAMBDA n : n.type = "Motor" /\ n.name \in {"left", "right"})

\* The analogWrite instructions of the control buffer, in order
ActuationLines ==
    SelectSeq(generatedCode, LAMBDA line : StartsWithText(line, "analogWrite("))

AnalogWriteTo(motor) ==
    "analogWrite("
    \o to_string(IF motor.name = "left" THEN MOTOR_LEFT_FORWARD ELSE MOTOR_RIGHT_FORWARD)
    \o ", "

\* The number a line carries after the given text
ValueAfter(line, text) == Stoi(SubSeq(line, Len(text) + 1, Len(line))).value

\* The value the i-th analogWrite instruction writes
Written(i) == ValueAfter(ActuationLines[i], AnalogWriteTo(WrittenMotors[i]))

\* C25: when generate has returned, each analogWrite instruction writes
\* floor(speed * 255 / 100) for the speed of its Motor node: a value in
\* 0..255, 0 for speed 0, 255 for speed 100, and of two Motor nodes the one
\* with the lower speed never gets the higher value.
C25_SpeedRescaled ==
    genState = "done" =>
        /\ Len(ActuationLines) = Len(WrittenMotors)
        /\ \A i \in 1..Len(WrittenMotors) :
               LET speed == WrittenMotors[i].speed
               IN  /\ ActuationLines[i] =
                          AnalogWriteTo(WrittenMotors[i]) \o to_string(Written(i)) \o ");"
                   /\ Written(i) \in 0..255
                   /\ Written(i) * 100 <= speed * 255
                   /\ speed * 255 < (Written(i) + 1) * 100
                   /\ speed = 0 => Written(i) = 0
                   /\ speed = 100 => Written(i) = 255
        /\ \A i, j \in 1..Len(WrittenMotors) :
               WrittenMotors[i].speed <= WrittenMotors[j].speed => Written(i) <= Written(j)

\* generate has returned with the values written for speed 99 and speed 100
C25_TwoSpeedsWritten ==
    /\ genState = "done"
    /\ Len(ActuationLines) = 2
    /\ Len(WrittenMotors) = 2
    /\ WrittenMotors[1].speed = 99
    /\ WrittenMotors[2].speed = 100
    /\ Written(1) < Written(2)


\* The Move and Turn nodes among the top-level statements, in order
DelayNodes ==
    SelectSeq(ast.statements, LAMBDA n : n.type \in {"Move", "Turn"})

\* The delay instructions of the control buffer, in order
DelayLines ==
    SelectSeq(generatedCode, LAMBDA line : StartsWithText(line, "delay("))

\* The distance of a Move, the angle of a Turn, and the factor of its delay
Amount(node) == IF node.type = "Move" THEN node.distance ELSE node.angle

Factor(node) == IF node.type = "Move" THEN 10 ELSE 5

Delay(i) == ValueAfter(DelayLines[i], "delay(")

\* C26: generate runs through for every Move and Turn a parser stored, and
\* when it has returned the delay of each is its distance times 10, its
\* angle times 5: not negative, an int, and of two Moves or two Turns the
\* one with the lower amount never gets the longer delay.
C26_DelayScaled ==
    /\ genState # "aborted"
    /\ genState = "done" =>
        /\ Len(DelayLines) = Len(DelayNodes)
        /\ \A i \in 1..Len(DelayNodes) :
               /\ DelayLines[i] = "delay(" \o to_string(Delay(i)) \o ");"
               /\ Delay(i) >= 0
               /\ Delay(i) % Factor(DelayNodes[i]) = 0
               /\ Delay(i) \div Factor(DelayNodes[i]) = Amount(DelayNodes[i])
        /\ \A i, j \in 1..Len(DelayNodes) :
               (/\ DelayNodes[i].type = DelayNodes[j].type
                /\ Amount(DelayNodes[i]) <= Amount(DelayNodes[j])) => Delay(i) <= Delay(j)


(***************************************************************************)
(* Properties of Parser::parseLEDStatement.                                *)
(***************************************************************************)
\* parseStatement is about to call parseLEDStatement on LED on or LED off
AtLedOnOff ==
    /\ AtStatement
    /\ Check("LED")
    /\ PeekAt(pos + 1).value \in {"on", "off"}

\* The statement last pushed to the Program
LastStatement(stmts) == stmts[Len(stmts)]

\* C27: parseLEDStatement on LED on or LED off takes the token after the
\* state as the colour exactly when it is an IDENTIFIER; otherwise the Led
\* has the empty colour and the cursor stays on that token.  The JSON of a
\* Led has a color field exactly when its colour is not empty.
C27_ColourOnlyFromIdentifier ==
    /\ [][AtLedOnOff =>
             /\ outcome' = Running
             /\ Len(statements') = Len(statements) + 1
             /\ IF PeekAt(pos + 2).type = "IDENTIFIER"
                THEN /\ pos' = pos + 3
                     /\ LastStatement(statements') =
                            LEDStatement(PeekAt(pos + 1).value, PeekAt(pos + 2).value)
                ELSE /\ pos' = pos + 2
                     /\ LastStatement(statements') = LEDStatement(PeekAt(pos + 1).value, "")]_vars
    /\ [](outcome = Returned =>
             \A i \in 1..Len(ast.statements) :
                 ast.statements[i].type = "LED" =>
                     (("color" \in DOMAIN toJson(ast).statements[i])
                          <=> ast.statements[i].color # ""))

\* parse() has returned a Led without colour that was followed by a
\* statement, and a Led with a colour
C27_LedWithoutColourThenStatement ==
    /\ outcome = Returned
    /\ Len(ast.statements) = 3
    /\ ast.statements[1] = LEDStatement("off", "")
    /\ ast.statements[2] = StopStatement
    /\ ast.statements[3].type = "LED"
    /\ ast.statements[3].color # ""
    /\ "color" \notin DOMAIN toJson(ast).statements[1]


(***************************************************************************)
(* Properties of the line-based PeglibParser::parseStatements.             *)
(***************************************************************************)
\* C28: a line that is not END, does not start with REPEAT, WAIT, LED or
\* MOTOR and is not STOP adds no node, raises nothing and moves the index
\* by one; the Program returned is the one returned for the same lines
\* without the skipped ones.
C28_SkippedLineLeavesNoTrace ==
    /\ [][(AtLine /\ Skipped(Line)) =>
             /\ index' = index + 1
             /\ statements' = statements
             /\ stack' = stack
             /\ outcome' = Running]_vars
    /\ []((outcome = Returned /\ previous # <<>>) => ast = previous[1].ast)

\* Both runs have returned; the first had a skipped line between a
\* recognized line and a REPEAT block, and the Program has a node for each
C28_SkippedBetweenRecognized ==
    /\ outcome = Returned
    /\ previous # <<>>
    /\ Len(previous[1].lines) = 4
    /\ previous[1].lines[1] = "STOP"
    /\ Skipped(previous[1].lines[2])
    /\ previous[1].lines[3] = "REPEAT 2 TIMES"
    /\ previous[1].lines[4] = "STOP"
    /\ ast = Program(<< StopStatement, RepeatStatement(2, << StopStatement >>) >>)


\* The line is a statement the parser recognizes, with the operands its
\* rule asks for
WellFormedLine(line) ==
    \/ line = "STOP"
    \/ StartsWith(line, "WAIT") /\ LineWaitRule(line).ok
    \/ ~StartsWith(line, "WAIT") /\ StartsWith(line, "LED") /\ LineLEDRule(line).ok
    \/ ~StartsWith(line, "WAIT") /\ ~StartsWith(line, "LED")
           /\ StartsWith(line, "MOTOR") /\ LineMotorRule(line).ok
    \/ StartsWith(line, "REPEAT") /\ Len(split(line, " ")) >= 3 /\ Stoi(split(line, " ")[2]).ok

\* C29: when parse() has returned, the Program holds one node for every
\* well-formed recognized statement line of the source, wherever the line
\* stands: none is dropped.
C29_NoRecognizedLineDropped ==
    (frontEnd = "lines" /\ outcome = Returned) =>
        Len(AllNodes(ast.statements)) = Len(SelectSeq(lines, WellFormedLine))


(***************************************************************************)
(* Properties of the PEG-grammar PeglibParser against the token Parser.    *)
(***************************************************************************)
\* C30: when the PEG-grammar PeglibParser has returned for a program the
\* token Parser has parsed, its Program is the tree the token Parser
\* built: the same If, While, Repeat and Function nodes, each statement of
\* a block in the body of its construct and not in Program.statements.
C30_PegBuildsSameTree ==
    (frontEnd = "peg" /\ outcome = Returned) => ast = previous[1].ast

====
